---- MODULE Spec2Model ----
(***************************************************************************)
(* Model of the wool-auction lookup application (src/app.py): the dynamic  *)
(* column-filter compiler of the query endpoints, the per-date             *)
(* volume-weighted aggregation with median-bound outlier rejection, the    *)
(* linear interpolation of series and the comparison endpoints.            *)
(*                                                                         *)
(* A request is handled in one step (pc "idle" -> "done"); Respond returns *)
(* the worker to "idle": everything the handlers compute is request-scoped.*)
(* The database fetch is taken to succeed and its rows are an input of the *)
(* handler.  Currency values are exact rationals [n, d]; None is the       *)
(* record with d = 0.  The connection a worker keeps (get_db), the export  *)
(* file updater (scripts/update_export_data.py) and categorize_wool_data   *)
(* (export_data_loader.py) are modelled on variables of their own.         *)
(***************************************************************************)
EXTENDS Integers, Sequences, FiniteSets, TLC

VARIABLES pc, endpoint, request, executed, fetched, status, response,
          values, interpolated, idx,
          worker_conn, worker_tunnel, tunnels, threads,
          files, updater, observed

\* The state of a request being handled.
requestVars == <<pc, endpoint, request, executed, fetched, status, response,
                 values, interpolated, idx>>

\* The connection a worker process keeps (get_db) and its threads.
workerVars == <<worker_conn, worker_tunnel, tunnels, threads>>

\* The export data directory, the updater script and a reader of the files.
fileVars == <<files, updater, observed>>

vars == <<requestVars, workerVars, fileVars>>

(***************************************************************************)
(* Bounds of the model.                                                    *)
(***************************************************************************)
MaxFilters == 2
MaxRows == 3
MaxCompareRows == 2
MaxEntities == 2
MaxLen == 4
MaxWeeks == 3

\* The most rows of a distribution.
MaxPoints == 3

\* The most characters of a type_combined.
\* The threads of a worker process that handle requests.
MaxThreads == 2

\* The most SSH tunnels a worker starts.
MaxTunnels == 3

\* The versions of an export file the website publishes.
MaxVersions == 2

\* The most rows of a dataframe of HS codes.
MaxFrame == 2

MaxChars == 3

\* The most colour values that are not NULL in a reference population.
MaxColours == 5

(***************************************************************************)
(* Generic helpers.                                                        *)
(***************************************************************************)
Range(s) == {s[i] : i \in 1..Len(s)}

SeqsUpTo(S, n) == UNION {[1..k -> S] : k \in 0..n}

Abs(a) == IF a < 0 THEN -a ELSE a

RECURSIVE GCD(_, _)
GCD(a, b) == IF b = 0 THEN a ELSE GCD(b, a % b)

RECURSIVE SumSeq(_)
SumSeq(s) == IF s = <<>> THEN 0 ELSE Head(s) + SumSeq(Tail(s))

\* The sorted sequence (ascending) of a finite set of integers: sorted(set(...)).
RECURSIVE SortedSeq(_)
SortedSeq(S) ==
    IF S = {} THEN <<>>
    ELSE LET m == CHOOSE x \in S : \A y \in S : x <= y
         IN <<m>> \o SortedSeq(S \ {m})

(***************************************************************************)
(* JSON values of a request body.  kind "null" is None (a missing key and  *)
(* a JSON null are the same to dict.get); "list" is a JSON array, which    *)
(* Python cannot hash.                                                     *)
(***************************************************************************)
Null == [kind |-> "null", val |-> ""]
Str(s) == [kind |-> "str", val |-> s]
Num(s) == [kind |-> "num", val |-> s]
List(s) == [kind |-> "list", val |-> s]

\* Python truthiness, as tested by `not x` / `if x`.
Truthy(v) ==
    CASE v.kind = "null" -> FALSE
      [] v.kind = "str" -> v.val # ""
      [] v.kind = "num" -> v.val # "0"
      [] v.kind = "list" -> v.val # ""

\* str.strip() on the type-search terms the model sends.
Strip(s) ==
    CASE s = "  " -> ""
      [] s = " 28A " -> "28A"
      [] OTHER -> s

(***************************************************************************)
(* The column-filter compiler (search_auctions, get_bales_chart,           *)
(* get_price_chart, get_compare_chart, get_compare_chart_blend).           *)
(***************************************************************************)
ALLOWED_COLUMNS ==
    {"price", "bales", "kg", "colour", "micron", "yield",
     "vegetable_matter", "sale_date", "location",
     "seller_name", "farm_brand_name", "wool_type_id",
     "type_combined", "lot_number", "is_sold"}

\* The operators the if/elif chain of search, bales_chart and price_chart knows.
SearchOperators ==
    {"eq", "ne", "gt", "lt", "gte", "lte", "between", "contains", "not_contains"}

\* The chain of compare_chart and of the per-entry filters of compare_chart_blend.
CompareOperators == {"eq", "ne", "gt", "lt", "gte", "lte", "between"}

\* The chain of the shared date filter of compare_chart_blend.
DateOperators == {"eq", "gt", "lt", "gte", "lte", "between"}

\* The SQL text each operator appends after the column name.
OperatorSql(op) ==
    CASE op = "eq" -> " = %s"
      [] op = "ne" -> " != %s"
      [] op = "gt" -> " > %s"
      [] op = "lt" -> " < %s"
      [] op = "gte" -> " >= %s"
      [] op = "lte" -> " <= %s"
      [] op = "between" -> " BETWEEN %s AND %s"
      [] op = "contains" -> " LIKE %s"
      [] op = "not_contains" -> " NOT LIKE %s"

\* f" AND {column} <op> %s": the piece of text one accepted predicate appends.
Fragment(column, op) == " AND " \o column \o OperatorSql(op)

\* f"%{value}%"
LikeWrap(v) == Str("%" \o v.val \o "%")

\* A variant that binds value alone whatever the operator.
FragmentParamsValueOnly(op, value, value2) == <<value>>

\* The bound parameters one accepted predicate appends.
FragmentParams(op, value, value2) ==
    CASE op = "between" -> <<value, value2>>
      [] op \in {"contains", "not_contains"} -> <<LikeWrap(value)>>
      [] OTHER -> <<value>>

\* `column not in ALLOWED_COLUMNS`, for a hashable column.
NotWhitelisted(column) == ~(column.kind = "str" /\ column.val \in ALLOWED_COLUMNS)

\* The if/elif chain: does it reach a branch that appends?
ChainAccepts(f, ops) ==
    /\ f.operator.kind = "str"
    /\ f.operator.val \in ops
    /\ (f.operator.val = "between" => Truthy(f.value2))

\* One iteration of `for filter_item in ...` on the accumulator
\* [query, params, raised]; query is the sequence of pieces of text appended
\* so far, raised says an exception left the loop.
ApplyFilter(acc, f, ops) ==
    IF acc.raised THEN acc
    ELSE IF ~Truthy(f.column) \/ ~Truthy(f.operator) \/ ~Truthy(f.value) THEN acc
    ELSE IF f.column.kind = "list" THEN [acc EXCEPT !.raised = TRUE]
    ELSE IF NotWhitelisted(f.column) THEN acc
    ELSE IF ChainAccepts(f, ops)
         THEN [acc EXCEPT
                 !.query = Append(@, Fragment(f.column.val, f.operator.val)),
                 !.params = @ \o FragmentParams(f.operator.val, f.value, f.value2)]
         ELSE acc

RECURSIVE ApplyFilters(_, _, _)
ApplyFilters(acc, filters, ops) ==
    IF filters = <<>> THEN acc
    ELSE ApplyFilters(ApplyFilter(acc, Head(filters), ops), Tail(filters), ops)

\* `if data.get('column_filters'):` then the loop.
ApplyColumnFilters(acc, filters, ops) == ApplyFilters(acc, filters, ops)

TypeSearchSql == " AND (CAST(wool_type_id AS CHAR) = %s OR type_combined = %s)"

\* The free-text type search of search, bales_chart and price_chart.
ApplyTypeSearch(acc, term) ==
    IF Truthy(term) /\ Strip(term.val) # ""
    THEN [acc EXCEPT !.query = Append(@, TypeSearchSql),
                     !.params = @ \o <<Str(Strip(term.val)), Str(Strip(term.val))>>]
    ELSE acc

\* The query a filter endpoint builds: base text, type search, column
\* filters, then the tail (ORDER BY / GROUP BY).
BuildQuery(base, tail, req, ops) ==
    LET a0 == [query |-> <<base>>, params |-> <<>>, raised |-> FALSE]
        a1 == ApplyTypeSearch(a0, req.wool_type_search)
        a2 == ApplyColumnFilters(a1, req.column_filters, ops)
    IN [a2 EXCEPT !.query = Append(@, tail)]

SearchBase == "SELECT ... FROM auction_data_joined WHERE price > 10"
SearchTail == " ORDER BY sale_date DESC LIMIT 1000"
BalesBase == "SELECT sale_date, SUM(bales) ... WHERE price > 10"
BalesTail == " GROUP BY sale_date ORDER BY sale_date ASC"
PriceBase == "SELECT sale_date, price, bales, ... WHERE price > 10 AND bales > 0"
CompareBase ==
    "SELECT sale_date, price, bales ... WHERE price > 10 AND bales > 0"
        \o TypeSearchSql
OrderTail == " ORDER BY sale_date ASC"

(***************************************************************************)
(* Exact rationals for the float values the handlers compute.  The prices  *)
(* and bales of the model are small integers, for which the comparisons    *)
(* with median * 0.8 and median * 1.2 in doubles agree with the exact      *)
(* ones; the one place where the double matters, round(x / 100, 2) on a    *)
(* half cent, is computed from the binary expansion (TieRoundsUp).         *)
(***************************************************************************)
NoneV == [n |-> 0, d |-> 0]

IsNone(r) == r.d = 0

Rat(n, d) ==
    LET g == GCD(Abs(n), d)
    IN [n |-> n \div g, d |-> d \div g]

RInt(i) == [n |-> i, d |-> 1]

RAdd(a, b) == Rat(a.n * b.d + b.n * a.d, a.d * b.d)

RSub(a, b) == Rat(a.n * b.d - b.n * a.d, a.d * b.d)

\* a * (p / q) for integers p, q > 0
RScale(a, p, q) == Rat(a.n * p, a.d * q)

RLe(a, b) == a.n * b.d <= b.n * a.d

RECURSIVE RSum(_)
RSum(s) == IF s = <<>> THEN RInt(0) ELSE RAdd(Head(s), RSum(Tail(s)))

\* The last 52 bits of the 53-bit significand of num / den (1 <= num/den < 2):
\* the remainder left after them.
RECURSIVE SignificandRem(_, _, _)
SignificandRem(rem, den, bits) ==
    IF bits = 0 THEN rem
    ELSE IF 2 * rem >= den THEN SignificandRem(2 * rem - den, den, bits - 1)
    ELSE SignificandRem(2 * rem, den, bits - 1)

RECURSIVE ScaleUp(_, _)
ScaleUp(a, den) == IF a < den THEN ScaleUp(2 * a, den) ELSE a

RECURSIVE ScaleDen(_, _)
ScaleDen(a, den) == IF a >= 2 * den THEN ScaleDen(a, 2 * den) ELSE den

\* round((k + 0.5) / 100, 2) gives (k + 1) / 100 rather than k / 100: the
\* double nearest to (2k + 1) / 200 lies above it, or is it and k is odd
\* (round-half-even on an exactly represented half cent).
TieRoundsUp(k) ==
    LET a == ScaleUp(2 * k + 1, 200)
        den == ScaleDen(a, 200)
        rem == SignificandRem(a - den, den, 52)
    IN IF rem = 0 THEN k % 2 = 1 ELSE 2 * rem > den

\* round(weighted_avg_price / 100, 2) for weighted_avg_price = tw / tb cents.
RoundDollars(tw, tb) ==
    LET q == tw \div tb
        r == tw % tb
        cents == IF 2 * r < tb THEN q
                 ELSE IF 2 * r > tb THEN q + 1
                 ELSE IF TieRoundsUp(q) THEN q + 1 ELSE q
    IN Rat(cents, 100)

\* round(avg_value, 2) of a value that went through interpolation and
\* averaging in doubles: a half cent goes where the accumulated rounding
\* error sends it (tieUp).
RoundAvg(v, tieUp) ==
    LET num == 100 * v.n
        q == num \div v.d
        r == num % v.d
        cents == IF 2 * r < v.d THEN q
                 ELSE IF 2 * r > v.d THEN q + 1
                 ELSE IF tieUp THEN q + 1 ELSE q
    IN Rat(cents, 100)

(***************************************************************************)
(* Rows fetched from the database, and the per-date aggregation.  A row is *)
(* [sale_date, price, bales]; 0 stands for a NULL (or zero) column, which  *)
(* the handlers drop by truthiness.  sale_date is the day's ordinal.       *)
(***************************************************************************)
\* sale_date.strftime('%Y-%m-%d'), as the number yyyymmdd: the strings have a
\* fixed width, so their order is the order of these numbers.
DateKey(d) ==
    CASE d = 1 -> 20240130
      [] d = 2 -> 20240131
      [] d = 3 -> 20240201
      [] d = 4 -> 20240208
      [] OTHER -> 20240300 + d

\* Rows are grouped whatever their price and bales.
RowKeptDateOnly(row) == row.sale_date # 0

\* `if row['sale_date'] and row['price'] and row['bales']`
RowKept(row) == row.sale_date # 0 /\ row.price # 0 /\ row.bales # 0

\* date_data: the dates that have a list, and the list of a date.
DateDataKeys(rows) == {rows[i].sale_date : i \in {j \in 1..Len(rows) : RowKept(rows[j])}}

DateItems(rows, d) == SelectSeq(rows, LAMBDA r : RowKept(r) /\ r.sale_date = d)

RECURSIVE Insert(_, _)
Insert(x, s) ==
    IF s = <<>> THEN <<x>>
    ELSE IF x <= Head(s) THEN <<x>> \o s
    ELSE <<Head(s)>> \o Insert(x, Tail(s))

RECURSIVE Sorted(_)
Sorted(s) == IF s = <<>> THEN <<>> ELSE Insert(Head(s), Sorted(Tail(s)))

PriceList(items) == [i \in 1..Len(items) |-> items[i].price]

\* A median that takes the upper of the two middle prices of an even list.
MedianHigh(prices) ==
    LET s == Sorted(prices)
    IN RInt(s[Len(s) \div 2 + 1])

\* statistics.median of a non-empty list of integers
Median(prices) ==
    LET s == Sorted(prices)
        n == Len(s)
    IN IF n % 2 = 1 THEN RInt(s[(n + 1) \div 2])
       ELSE Rat(s[n \div 2] + s[n \div 2 + 1], 2)

\* lower_bound <= item['price'] <= upper_bound
WithinBounds(price, median) ==
    /\ RLe(RScale(median, 4, 5), RInt(price))
    /\ RLe(RInt(price), RScale(median, 6, 5))

FilteredItemsUnfiltered(items) == items

\* The items that survive outlier rejection in get_price_chart: the filter
\* is applied to every group, with the fall back to the whole group.
FilteredItemsAlways(items) ==
    LET median == Median(PriceList(items))
        kept == SelectSeq(items, LAMBDA it : WithinBounds(it.price, median))
    IN IF Len(kept) = 0 THEN items ELSE kept

\* The same in get_compare_chart and get_compare_chart_blend, where a group
\* of one item skips the filter.
FilteredItems(items) ==
    IF Len(items) > 1 THEN FilteredItemsAlways(items) ELSE items

\* The sum of the prices, not weighted by bales.
TotalPriceUnweighted(items) == SumSeq(PriceList(items))

\* total_weighted_price = sum(item['price'] * item['bales'] for item in filtered_items)
TotalWeightedPrice(items) == SumSeq([i \in 1..Len(items) |-> items[i].price * items[i].bales])

TotalBales(items) == SumSeq([i \in 1..Len(items) |-> items[i].bales])

\* The dates of a row list that produce an output entry (total_bales > 0),
\* ascending: `for sale_date in sorted(date_data.keys())`.
OutputDates(rows, always) ==
    LET kept(d) == IF always THEN FilteredItemsAlways(DateItems(rows, d))
                   ELSE FilteredItems(DateItems(rows, d))
    IN SelectSeq(SortedSeq(DateDataKeys(rows)), LAMBDA d : TotalBales(kept(d)) > 0)

\* One point of get_price_chart: label, rounded price, data-quality count.
PricePoint(rows, d) ==
    LET kept == FilteredItemsAlways(DateItems(rows, d))
    IN [label |-> DateKey(d),
        price |-> RoundDollars(TotalWeightedPrice(kept), TotalBales(kept)),
        quality |-> Len(kept),
        min |-> Sorted(PriceList(kept))[1],
        max |-> Sorted(PriceList(kept))[Len(kept)]]

PricePoints(rows) ==
    LET ds == OutputDates(rows, TRUE)
    IN [i \in 1..Len(ds) |-> PricePoint(rows, ds[i])]

NoStatistics == [present |-> FALSE, count |-> 0, min |-> NoneV, max |-> NoneV]

\* A summary that counts the dates instead of the items behind them.
StatisticsCountsDates(points) ==
    IF Len(points) = 0 THEN NoStatistics
    ELSE [present |-> TRUE,
          count |-> Len(points),
          min |-> Rat(Sorted([i \in 1..Len(points) |-> points[i].min])[1], 100),
          max |-> Rat(Sorted([i \in 1..Len(points) |-> points[i].max])[Len(points)], 100)]

\* statistics_summary of get_price_chart (the count and the extremes of
\* stats_data; the mean, median and standard deviation are not modelled).
StatisticsSummary(points) ==
    LET count == SumSeq([i \in 1..Len(points) |-> points[i].quality])
    IN IF count = 0 THEN NoStatistics
       ELSE [present |-> TRUE,
             count |-> count,
             min |-> Rat(Sorted([i \in 1..Len(points) |-> points[i].min])[1], 100),
             max |-> Rat(Sorted([i \in 1..Len(points) |-> points[i].max])[Len(points)], 100)]

\* series_data of get_compare_chart: date key -> rounded dollars.
CompareSeries(rows) ==
    LET ds == Range(OutputDates(rows, FALSE))
        dateOf(k) == CHOOSE d \in ds : DateKey(d) = k
        kept(k) == FilteredItems(DateItems(rows, dateOf(k)))
    IN [k \in {DateKey(d) : d \in ds} |->
          RoundDollars(TotalWeightedPrice(kept(k)), TotalBales(kept(k)))]

\* type_data of get_compare_chart_blend: date key -> dollars, not rounded.
TypeData(rows) ==
    LET ds == Range(OutputDates(rows, FALSE))
        dateOf(k) == CHOOSE d \in ds : DateKey(d) = k
        kept(k) == FilteredItems(DateItems(rows, dateOf(k)))
    IN [k \in {DateKey(d) : d \in ds} |->
          Rat(TotalWeightedPrice(kept(k)), 100 * TotalBales(kept(k)))]

\* A gap drawn as zero: series_data.get(date, 0).
OnAxisZeroFilled(series, axis) ==
    [i \in 1..Len(axis) |-> IF axis[i] \in DOMAIN series THEN series[axis[i]] ELSE RInt(0)]

\* series_data.get(date, None) for every date of the axis
OnAxis(series, axis) ==
    [i \in 1..Len(axis) |-> IF axis[i] \in DOMAIN series THEN series[axis[i]] ELSE NoneV]

(***************************************************************************)
(* interpolate_series: the loop body for position i on the list being      *)
(* filled in place, and the whole loop.                                    *)
(***************************************************************************)
\* prev_idx after the first while loop (0: none; the source counts from 0
\* and ends at -1)
PrevIdx(interp, i) ==
    LET c == {j \in 1..(i - 1) : ~IsNone(interp[j])}
    IN IF c = {} THEN 0 ELSE CHOOSE j \in c : \A k \in c : k <= j

\* next_idx after the second while loop (Len + 1: none)
NextIdx(interp, i) ==
    LET c == {j \in (i + 1)..Len(interp) : ~IsNone(interp[j])}
    IN IF c = {} THEN Len(interp) + 1 ELSE CHOOSE j \in c : \A k \in c : j <= k

\* The ratio taken by floor division.
LerpFloorDivision(prev_value, next_value, position, distance) ==
    RAdd(prev_value, RScale(RSub(next_value, prev_value), position \div distance, 1))

\* prev_value + (next_value - prev_value) * (position / distance)
Lerp(prev_value, next_value, position, distance) ==
    RAdd(prev_value, RScale(RSub(next_value, prev_value), position, distance))

\* The loop body without the two flat fills.
InterpolateAtInteriorOnly(interp, i) ==
    IF ~IsNone(interp[i]) THEN interp
    ELSE LET p == PrevIdx(interp, i)
             n == NextIdx(interp, i)
         IN IF p >= 1 /\ n <= Len(interp)
            THEN [interp EXCEPT ![i] = Lerp(interp[p], interp[n], i - p, n - p)]
            ELSE interp

\* The loop body without the flat line backward.
InterpolateAtForwardOnly(interp, i) ==
    IF ~IsNone(interp[i]) THEN interp
    ELSE LET p == PrevIdx(interp, i)
             n == NextIdx(interp, i)
         IN IF p >= 1 /\ n <= Len(interp)
            THEN [interp EXCEPT ![i] = Lerp(interp[p], interp[n], i - p, n - p)]
            ELSE IF p >= 1 THEN [interp EXCEPT ![i] = interp[p]]
            ELSE interp

\* One pass of `for i in range(len(interpolated))`.
InterpolateAt(interp, i) ==
    IF ~IsNone(interp[i]) THEN interp
    ELSE LET p == PrevIdx(interp, i)
             n == NextIdx(interp, i)
         IN IF p >= 1 /\ n <= Len(interp)
            THEN [interp EXCEPT ![i] = Lerp(interp[p], interp[n], i - p, n - p)]
            ELSE IF p >= 1 THEN [interp EXCEPT ![i] = interp[p]]
            ELSE IF n <= Len(interp) THEN [interp EXCEPT ![i] = interp[n]]
            ELSE interp

RECURSIVE InterpolateFrom(_, _)
InterpolateFrom(interp, i) ==
    IF i > Len(interp) THEN interp
    ELSE InterpolateFrom(InterpolateAt(interp, i), i + 1)

InterpolateSeries(vals) == InterpolateFrom(vals, 1)

(***************************************************************************)
(* The comparison endpoints.                                               *)
(***************************************************************************)
\* The most entities one comparison takes.
MAX_COMPARE == 5

\* A cap that lets one entity more through.
TooManyOffByOne(n) == n > MAX_COMPARE + 1

\* `if len(wool_types) > 5:` / `if len(entries) > 5:`
TooMany(n) == n > MAX_COMPARE

ErrorResponse(msg) == [kind |-> "error", error |-> msg]

\* The query of one wool type in get_compare_chart.
CompareQuery(wool_type, filters) ==
    LET a0 == [query |-> <<CompareBase>>,
               params |-> <<Str(wool_type), Str(wool_type)>>,
               raised |-> FALSE]
        a1 == ApplyColumnFilters(a0, filters, CompareOperators)
    IN [a1 EXCEPT !.query = Append(@, OrderTail)]

NoDateFilter == [present |-> FALSE, operator |-> Null, value |-> Null, value2 |-> Null]

\* The shared date filter of get_compare_chart_blend: the column is fixed
\* and the value is appended as it is.
ApplyDateFilter(acc, df) ==
    IF df.present /\ ChainAccepts(df, DateOperators)
    THEN [acc EXCEPT
            !.query = Append(@, Fragment("sale_date", df.operator.val)),
            !.params = @ \o FragmentParams(df.operator.val, df.value, df.value2)]
    ELSE acc

\* The query of one wool type of one entry in get_compare_chart_blend.
BlendQuery(wool_type, df, filters) ==
    LET a0 == [query |-> <<CompareBase>>,
               params |-> <<Str(wool_type), Str(wool_type)>>,
               raised |-> FALSE]
        a1 == ApplyDateFilter(a0, df)
        a2 == ApplyFilters(a1, filters, CompareOperators)
    IN [a2 EXCEPT !.query = Append(@, OrderTail)]

\* The queries a handler builds, in order, cut at the first one whose
\* construction raised: what cursor.execute has run.
RECURSIVE ExecutedOf(_)
ExecutedOf(built) ==
    IF built = <<>> \/ Head(built).raised THEN <<>>
    ELSE <<[query |-> Head(built).query, params |-> Head(built).params]>>
           \o ExecutedOf(Tail(built))

AnyRaised(built) == \E i \in 1..Len(built) : built[i].raised

\* all_dates = sorted(set(date for series in all_series.values() ...)),
\* all_series being a sequence of [label, series].
AllDates(all_series) ==
    SortedSeq(UNION {DOMAIN all_series[i].series : i \in 1..Len(all_series)})

\* A dict filled by `d[key[i]] = value[i]` for the positions i where
\* present[i], kept as the sequence of [label, series] in the dict's order: a
\* key stands where it was first inserted and holds what was last assigned
\* to it.
DictOf(present, key, value) ==
    LET n == Len(key)
        first == {i \in 1..n : present[i] /\ \A j \in 1..(i - 1) : ~(present[j] /\ key[j] = key[i])}
        order == SortedSeq(first)
        last(i) == CHOOSE j \in 1..n :
                      /\ present[j] /\ key[j] = key[i]
                      /\ \A k \in (j + 1)..n : ~(present[k] /\ key[k] = key[i])
    IN [k \in 1..Len(order) |-> [label |-> key[order[k]], series |-> value[last(order[k])]]]

\* all_series.get(label, {})
DictGet(all_series, label) ==
    IF \E i \in 1..Len(all_series) : all_series[i].label = label
    THEN (CHOOSE e \in Range(all_series) : e.label = label).series
    ELSE <<>>

\* all_series of get_compare_chart after the loop over wool_types:
\* all_series[wool_type] = series_data.
CompareAllSeries(wool_types, results) ==
    DictOf([i \in 1..Len(wool_types) |-> TRUE],
           wool_types,
           [i \in 1..Len(wool_types) |-> CompareSeries(results[wool_types[i]])])

\* datasets of get_compare_chart: `for idx, wool_type in enumerate(wool_types)`
CompareDatasets(wool_types, all_series) ==
    LET axis == AllDates(all_series)
    IN [i \in 1..Len(wool_types) |->
          [label |-> wool_types[i],
           data |-> OnAxis(DictGet(all_series, wool_types[i]), axis)]]

\* group_dates = sorted(set(date for series in type_series for date in series.keys()))
GroupDates(type_series) ==
    SortedSeq(UNION {DOMAIN type_series[i] : i \in 1..Len(type_series)})

\* interpolated_series: each type's values on the group's dates, interpolated
InterpolatedSeries(type_series, group_dates) ==
    [i \in 1..Len(type_series) |-> InterpolateSeries(OnAxis(type_series[i], group_dates))]

\* A None of a sub-type counted as the value 0.
ValidValuesZeroForNone(interpolated_series, k) ==
    [i \in 1..Len(interpolated_series) |->
       IF IsNone(interpolated_series[i][k]) THEN RInt(0) ELSE interpolated_series[i][k]]

\* valid_values at position k
ValidValues(interpolated_series, k) ==
    SelectSeq([i \in 1..Len(interpolated_series) |-> interpolated_series[i][k]],
              LAMBDA v : ~IsNone(v))

\* round(sum(valid_values) / len(valid_values), 2)
MeanOf(valid_values, tieUp) ==
    RoundAvg(RScale(RSum(valid_values), 1, Len(valid_values)), tieUp)

\* series_data of the averaging loop: a date without a valid value has no key
AverageSeries(interpolated_series, group_dates, tieUp) ==
    [date \in {group_dates[k] : k \in {j \in 1..Len(group_dates) :
                                         Len(ValidValues(interpolated_series, j)) > 0}} |->
       MeanOf(ValidValues(interpolated_series,
                          CHOOSE k \in 1..Len(group_dates) : group_dates[k] = date),
              tieUp)]

BlendOfTypeSeries(type_series, tieUp) ==
    AverageSeries(InterpolatedSeries(type_series, GroupDates(type_series)),
                  GroupDates(type_series), tieUp)

\* series_data of one blend entry: the mean of the interpolated sub-type
\* series at each date of the group, rounded.
BlendSeries(types, results, tieUp) ==
    BlendOfTypeSeries([i \in 1..Len(types) |-> TypeData(results[types[i]])], tieUp)

\* all_series of get_compare_chart_blend after the loop over entries: an
\* entry without types is skipped, the others do all_series[label] = series_data.
BlendAllSeries(entries, results, tieUp) ==
    DictOf([i \in 1..Len(entries) |-> entries[i].types # <<>>],
           [i \in 1..Len(entries) |-> entries[i].label],
           [i \in 1..Len(entries) |-> BlendSeries(entries[i].types, results, tieUp)])

\* datasets of get_compare_chart_blend: `for idx, entry_label in
\* enumerate(all_series.keys())`
BlendDatasets(all_series) ==
    LET axis == AllDates(all_series)
    IN [i \in 1..Len(all_series) |->
          [label |-> all_series[i].label,
           data |-> OnAxis(all_series[i].series, axis)]]

\* The queries of get_compare_chart_blend, entry by entry and type by type.
RECURSIVE BlendBuilt(_, _)
BlendBuilt(entries, df) ==
    IF entries = <<>> THEN <<>>
    ELSE LET e == Head(entries)
         IN [i \in 1..Len(e.types) |-> BlendQuery(e.types[i], df, e.filters)]
              \o BlendBuilt(Tail(entries), df)

(***************************************************************************)
(* The handlers.  Each takes the set its request is drawn from and the set *)
(* the rows fetched for it are drawn from.                                 *)
(***************************************************************************)
Finish(ep, req, exec, rows, st, resp) ==
    /\ pc' = "done"
    /\ endpoint' = ep
    /\ request' = req
    /\ executed' = exec
    /\ fetched' = rows
    /\ status' = st
    /\ response' = resp
    /\ UNCHANGED <<values, interpolated, idx>>
    /\ UNCHANGED <<workerVars, fileVars>>

\* row['sale_date'].strftime('%Y-%m-%d') on the rows of a search
FormatRows(rows) ==
    [i \in 1..Len(rows) |->
       IF rows[i].sale_date # 0
       THEN [rows[i] EXCEPT !.sale_date = DateKey(rows[i].sale_date)] ELSE rows[i]]

\* POST /api/search
Search(Requests, RowLists) ==
    /\ pc = "idle"
    /\ \E req \in Requests, rows \in RowLists :
         LET b == BuildQuery(SearchBase, SearchTail, req, SearchOperators)
         IN IF b.raised
            THEN Finish("search", req, <<>>, <<>>, 500, ErrorResponse("exception"))
            ELSE Finish("search", req, <<[query |-> b.query, params |-> b.params]>>, rows, 200,
                        [kind |-> "search", count |-> Len(rows), results |-> FormatRows(rows)])

\* POST /api/bales_chart: a fetched row is [sale_date, bales = total_bales].
BalesChart(Requests, RowLists) ==
    /\ pc = "idle"
    /\ \E req \in Requests, rows \in RowLists :
         LET b == BuildQuery(BalesBase, BalesTail, req, SearchOperators)
             kept == SelectSeq(rows, LAMBDA r : r.sale_date # 0 /\ r.bales # 0)
         IN IF b.raised
            THEN Finish("bales_chart", req, <<>>, <<>>, 500, ErrorResponse("exception"))
            ELSE Finish("bales_chart", req, <<[query |-> b.query, params |-> b.params]>>, rows, 200,
                        [kind |-> "bales_chart",
                         labels |-> [i \in 1..Len(kept) |-> DateKey(kept[i].sale_date)],
                         data |-> [i \in 1..Len(kept) |-> kept[i].bales]])

\* POST /api/price_chart
PriceChart(Requests, RowLists) ==
    /\ pc = "idle"
    /\ \E req \in Requests, rows \in RowLists :
         LET b == BuildQuery(PriceBase, OrderTail, req, SearchOperators)
             points == PricePoints(rows)
         IN IF b.raised
            THEN Finish("price_chart", req, <<>>, <<>>, 500, ErrorResponse("exception"))
            ELSE Finish("price_chart", req,
                        <<[query |-> b.query, params |-> b.params]>>, rows, 200,
                        [kind |-> "price_chart",
                         labels |-> [i \in 1..Len(points) |-> points[i].label],
                         data |-> [i \in 1..Len(points) |-> points[i].price],
                         data_quality |-> [i \in 1..Len(points) |-> points[i].quality],
                         statistics |-> StatisticsSummary(points),
                         table_data |-> [i \in 1..Len(points) |->
                                           [date |-> points[i].label,
                                            avg_price |-> points[i].price,
                                            matched_lots |-> points[i].quality]]])

\* POST /api/compare_chart: results[t] are the rows fetched for wool type t.
CompareChart(Requests, Results) ==
    /\ pc = "idle"
    /\ \E req \in Requests, results \in Results :
         LET built == [i \in 1..Len(req.wool_types) |->
                         CompareQuery(req.wool_types[i], req.column_filters)]
             all_series == CompareAllSeries(req.wool_types, results)
         IN IF Len(req.wool_types) = 0
            THEN Finish("compare_chart", req, <<>>, <<>>, 400,
                        ErrorResponse("No wool types specified"))
            ELSE IF TooMany(Len(req.wool_types))
            THEN Finish("compare_chart", req, <<>>, <<>>, 400,
                        ErrorResponse("Maximum 5 wool types for comparison"))
            ELSE IF AnyRaised(built)
            THEN Finish("compare_chart", req, ExecutedOf(built), <<>>, 500,
                        ErrorResponse("exception"))
            ELSE Finish("compare_chart", req,
                        ExecutedOf(built), results, 200,
                        [kind |-> "chart",
                         labels |-> AllDates(all_series),
                         datasets |-> CompareDatasets(req.wool_types, all_series)])

\* POST /api/compare_chart_blend
CompareChartBlend(Requests, Results) ==
    /\ pc = "idle"
    /\ \E req \in Requests, results \in Results, tieUp \in BOOLEAN :
         LET built == BlendBuilt(req.entries, req.date_filter)
             all_series == BlendAllSeries(req.entries, results, tieUp)
         IN IF Len(req.entries) = 0
            THEN Finish("compare_chart_blend", req, <<>>, <<>>, 400,
                        ErrorResponse("No entries specified"))
            ELSE IF TooMany(Len(req.entries))
            THEN Finish("compare_chart_blend", req, <<>>, <<>>, 400,
                        ErrorResponse("Maximum 5 entries for comparison"))
            ELSE IF AnyRaised(built)
            THEN Finish("compare_chart_blend", req, ExecutedOf(built), <<>>, 500,
                        ErrorResponse("exception"))
            ELSE Finish("compare_chart_blend", req,
                        ExecutedOf(built), results, 200,
                        [kind |-> "chart",
                         labels |-> AllDates(all_series),
                         datasets |-> BlendDatasets(all_series)])

\* The response is returned; nothing of the request is kept.
Respond ==
    /\ pc = "done"
    /\ pc' = "idle"
    /\ endpoint' = "none"
    /\ request' = <<>>
    /\ executed' = <<>>
    /\ fetched' = <<>>
    /\ status' = 0
    /\ response' = <<>>
    /\ UNCHANGED <<values, interpolated, idx>>
    /\ UNCHANGED <<workerVars, fileVars>>

\* interpolate_series(values): the call, one pass of the loop, the return.
InterpolateCall(Inputs) ==
    /\ pc = "idle"
    /\ \E vals \in Inputs :
         /\ values' = vals
         /\ interpolated' = vals
         /\ idx' = 1
    /\ pc' = "interpolating"
    /\ endpoint' = "interpolate_series"
    /\ UNCHANGED <<request, executed, fetched, status, response>>
    /\ UNCHANGED <<workerVars, fileVars>>

InterpolateStep ==
    /\ pc = "interpolating"
    /\ idx <= Len(interpolated)
    /\ interpolated' = InterpolateAt(interpolated, idx)
    /\ idx' = idx + 1
    /\ UNCHANGED <<pc, endpoint, request, executed, fetched, status, response, values>>
    /\ UNCHANGED <<workerVars, fileVars>>

InterpolateReturn ==
    /\ pc = "interpolating"
    /\ idx > Len(interpolated)
    /\ pc' = "returned"
    /\ UNCHANGED <<endpoint, request, executed, fetched, status, response, values, interpolated, idx>>
    /\ UNCHANGED <<workerVars, fileVars>>

InterpolateDone ==
    /\ pc = "returned"
    /\ pc' = "idle"
    /\ endpoint' = "none"
    /\ values' = <<>>
    /\ interpolated' = <<>>
    /\ idx' = 0
    /\ UNCHANGED <<request, executed, fetched, status, response>>
    /\ UNCHANGED <<workerVars, fileVars>>

(***************************************************************************)
(* get_regression.  The rows fetched are given as the weekly cohorts of    *)
(* df.groupby('week'), in week order; a cohort is [rows, valid, fit, r2,   *)
(* adj, coef]: the number of rows of the week, the number left after       *)
(* dropping rows with a missing feature or price, whether sm.OLS(...).fit()*)
(* returns ("ok") or raises, and the R-squared, adjusted R-squared and     *)
(* parameters of the fitted model.                                         *)
(***************************************************************************)
\* round(x, places) for scale = 10 ^ places; a tie goes where tieUp says.
RoundTo(v, scale, tieUp) ==
    LET num == scale * v.n
        q == num \div v.d
        r == num % v.d
        units == IF 2 * r < v.d THEN q
                 ELSE IF 2 * r > v.d THEN q + 1
                 ELSE IF tieUp THEN q + 1 ELSE q
    IN Rat(units, scale)

\* The least number of rows of a weekly regression.
MIN_WEEK_ROWS == 20

\* The least R-squared of a retained week, in 1/100000.
MIN_R_SQUARED == 40000

\* A threshold that refuses a week of exactly twenty rows.
EnoughRowsStrict(n) == n > MIN_WEEK_ROWS

\* `if len(week_df) < 20: continue` / `if len(y_clean) < 20: continue`
EnoughRows(n) == n >= MIN_WEEK_ROWS

\* A week is retained whatever its R-squared.
AnyFit(r2) == TRUE

\* `if float(model.rsquared) < 0.4: continue`
GoodFit(r2) == ~(r2 < MIN_R_SQUARED)

\* The keys of 'coefficients' and the model parameter each is read from.
CoefNames == {"intercept", "micron", "colour", "length_index", "vegetable_matter"}

\* `for coef in ['micron', 'colour', 'length_index', 'vegetable_matter']`
SmoothedCoefs == {"micron", "colour", "length_index", "vegetable_matter"}

\* f'{coef}_smoothed'
SmoothedKey(coef) == coef \o "_smoothed"

\* Does the loop body reach weekly_results.append for this cohort?
Retained(cohort) ==
    /\ EnoughRows(cohort.rows)
    /\ EnoughRows(cohort.valid)
    /\ cohort.fit = "ok"
    /\ GoodFit(cohort.r2)

\* The dict appended for the cohort of week `week`.
WeeklyResult(week, cohort) ==
    [week |-> week,
     r_squared |-> RoundTo(Rat(cohort.r2, 100000), 10000, FALSE),
     adj_r_squared |-> RoundTo(Rat(cohort.adj, 100000), 10000, FALSE),
     coefficients |-> [c \in CoefNames |-> RoundTo(cohort.coef[c], 100, FALSE)],
     n_obs |-> cohort.valid]

\* weekly_results after `for week, week_df in df.groupby('week')`
RECURSIVE WeeklyResultsFrom(_, _)
WeeklyResultsFrom(cohorts, week) ==
    IF week > Len(cohorts) THEN <<>>
    ELSE (IF Retained(cohorts[week]) THEN <<WeeklyResult(week, cohorts[week])>> ELSE <<>>)
           \o WeeklyResultsFrom(cohorts, week + 1)

WeeklyResults(cohorts) == WeeklyResultsFrom(cohorts, 1)

\* coef_series.rolling(window=smooth_window, min_periods=1).mean() at i
RollingMean(weekly, coef, window, i) ==
    LET from == IF i - window + 1 < 1 THEN 1 ELSE i - window + 1
    IN RScale(RSum([k \in 1..(i - from + 1) |-> weekly[from + k - 1].coefficients[coef]]),
              1, i - from + 1)

\* weekly_results after `if smooth_window > 1:`
Smoothed(weekly, window, tieUp) ==
    IF window > 1
    THEN [i \in 1..Len(weekly) |->
            [weekly[i] EXCEPT !.coefficients =
               [c \in CoefNames \cup {SmoothedKey(n) : n \in SmoothedCoefs} |->
                  IF c \in CoefNames THEN weekly[i].coefficients[c]
                  ELSE RoundTo(RollingMean(weekly,
                                           CHOOSE n \in SmoothedCoefs : SmoothedKey(n) = c,
                                           window, i),
                               100, tieUp)]]]
    ELSE weekly

\* smooth_window = int(data.get('smooth_window', 5))
SmoothWindow(req) == IF req.smooth_window.present THEN req.smooth_window.val ELSE 5

\* The query of get_regression with its micron and date filters.
RegressionQuery(filters) ==
    [query |-> <<"SELECT sale_date, price, ... WHERE price > 0 ... AND kg >= 50",
                 " AND micron BETWEEN %s AND %s",
                 " AND sale_date >= %s">>
                 \o (IF Truthy(filters.end_date) THEN <<" AND sale_date <= %s">> ELSE <<>>)
                 \o <<" ORDER BY sale_date">>,
     params |-> <<filters.min_micron, filters.max_micron,
                  IF Truthy(filters.start_date) THEN filters.start_date ELSE Str("2012-07-01")>>
                  \o (IF Truthy(filters.end_date) THEN <<filters.end_date>> ELSE <<>>)]

\* POST /api/metrics/regression
Regression(Requests, CohortLists) ==
    /\ pc = "idle"
    /\ \E req \in Requests, cohorts \in CohortLists, tieUp \in BOOLEAN :
         LET weekly == WeeklyResults(cohorts)
             q == <<RegressionQuery(req.filters)>>
         IN IF cohorts = <<>>
            THEN Finish("regression", req, q, cohorts, 200, ErrorResponse("No data found"))
            ELSE IF weekly = <<>>
            THEN Finish("regression", req, q, cohorts, 200,
                        ErrorResponse("Insufficient data for regression analysis"))
            ELSE Finish("regression", req, q, cohorts, 200,
                        [kind |-> "regression",
                         weekly_results |-> Smoothed(weekly, SmoothWindow(req), tieUp),
                         weeks_analyzed |-> Len(weekly)])

(***************************************************************************)
(* get_scenario.  The rows fetched are given as [rows, valid, params,      *)
(* adj]: the number of rows fetched, the number left after dropping rows   *)
(* with a missing feature or price, and the parameters and adjusted        *)
(* R-squared of the model fitted on them (the fit is taken to return).  A  *)
(* feature vector of the request maps each feature to [present, val].      *)
(***************************************************************************)
\* A key of a JSON object that is there with a value, or is not there.
Given(v) == [present |-> TRUE, val |-> v]

Omitted == [present |-> FALSE, val |-> NoneV]

\* The least number of fetched rows of a scenario or a benchmark.
MIN_POPULATION == 50

Features == {"micron", "colour", "length_index", "vegetable_matter"}

\* The constants baseline.get(feature, ...) falls back to.
BaselineDefault(feature) ==
    CASE feature = "micron" -> RInt(36)
      [] feature = "colour" -> RInt(3)
      [] feature = "length_index" -> RInt(4)
      [] feature = "vegetable_matter" -> Rat(3, 10)

\* baseline_vals
BaselineVals(baseline) ==
    [f \in Features |-> IF baseline[f].present THEN baseline[f].val ELSE BaselineDefault(f)]

\* A scenario that falls back to the constants, not to the baseline.
ScenarioValsFromDefaults(baseline_vals, scenario) ==
    [f \in Features |-> IF scenario[f].present THEN scenario[f].val ELSE BaselineDefault(f)]

\* scenario_vals: scenario.get(feature, baseline_vals[feature])
ScenarioVals(baseline_vals, scenario) ==
    [f \in Features |-> IF scenario[f].present THEN scenario[f].val ELSE baseline_vals[f]]

RMul(a, b) == Rat(a.n * b.n, a.d * b.d)

\* The factor a feature's value is scaled by before it meets its coefficient.
FeatureScale(feature) == IF feature = "vegetable_matter" THEN 10 ELSE 1

\* const + sum of params[feature] * value, vegetable matter scaled by 10
PredictedPrice(params, vals) ==
    RAdd(params["intercept"],
         RAdd(RAdd(RMul(params["micron"], vals["micron"]),
                   RMul(params["colour"], vals["colour"])),
              RAdd(RMul(params["length_index"], vals["length_index"]),
                   RMul(params["vegetable_matter"],
                        RScale(vals["vegetable_matter"], FeatureScale("vegetable_matter"), 1)))))

\* impact_breakdown
ImpactBreakdown(params, baseline_vals, scenario_vals, tieUp) ==
    [f \in Features |->
       RoundTo(RScale(RMul(params[f], RSub(scenario_vals[f], baseline_vals[f])),
                      FeatureScale(f), 1),
               100, tieUp)]

\* The body of the successful response.
ScenarioResponse(req, population, tieUp) ==
    LET baseline_vals == BaselineVals(req.baseline)
        scenario_vals == ScenarioVals(baseline_vals, req.scenario)
        baseline_price == PredictedPrice(population.params, baseline_vals)
        scenario_price == PredictedPrice(population.params, scenario_vals)
        price_change == RSub(scenario_price, baseline_price)
    IN [kind |-> "scenario",
        baseline |-> baseline_vals,
        scenario |-> scenario_vals,
        baseline_price_cents |-> RoundTo(baseline_price, 100, tieUp),
        scenario_price_cents |-> RoundTo(scenario_price, 100, tieUp),
        price_change_cents |-> RoundTo(price_change, 100, tieUp),
        price_change_dollars |-> RoundTo(RScale(price_change, 1, 100), 100, tieUp),
        impact_breakdown |->
          ImpactBreakdown(population.params, baseline_vals, scenario_vals, tieUp),
        model_stats |-> [r_squared |-> RoundTo(Rat(population.adj, 100000), 10000, FALSE),
                         n_obs |-> population.valid]]

\* POST /api/metrics/scenario
Scenario(Requests, Populations) ==
    /\ pc = "idle"
    /\ \E req \in Requests, population \in Populations, tieUp \in BOOLEAN :
         LET q == <<[query |-> <<"SELECT sale_date, price, ... INTERVAL 6 MONTH) ORDER BY sale_date">>,
                     params |-> <<>>]>>
         IN IF population.rows < MIN_POPULATION
            THEN Finish("scenario", req, q, population, 200,
                        ErrorResponse("Insufficient recent data for scenario analysis"))
            ELSE Finish("scenario", req, q, population, 200,
                        ScenarioResponse(req, population, tieUp))

(***************************************************************************)
(* derive_length_index.  A string is the sequence of its code points; a    *)
(* value that is not a string is None or a number.  The result is None, an *)
(* int, or the TypeError that ord() raises.                                *)
(***************************************************************************)
\* Letters outside ASCII that the inputs use: E acute (capital and small)
\* and the German sharp s, whose upper case is the two letters SS.
CapitalEAcute == 201

SmallEAcute == 233

SharpS == 223

\* c.upper() of one character: a string of one or two characters
Upper(c) ==
    IF c \in 97..122 THEN <<c - 32>>
    ELSE IF c = SmallEAcute THEN <<CapitalEAcute>>
    ELSE IF c = SharpS THEN <<83, 83>>
    ELSE <<c>>

\* str.isalpha(): not empty and every character is a letter of Unicode
IsAlpha(str) ==
    /\ Len(str) > 0
    /\ \A i \in 1..Len(str) :
         str[i] \in (65..90) \cup (97..122) \cup {CapitalEAcute, SmallEAcute, SharpS}

NoneResult == [kind |-> "none", val |-> 0]

\* derive_length_index(type_combined)
derive_length_index(type_combined) ==
    IF type_combined.kind # "str" \/ Len(type_combined.chars) = 0 THEN NoneResult
    ELSE LET length_code == Upper(type_combined.chars[Len(type_combined.chars)])
         IN IF IsAlpha(length_code)
            THEN IF Len(length_code) = 1
                 THEN [kind |-> "int", val |-> length_code[1] - 65 + 1]
                 ELSE [kind |-> "TypeError", val |-> 0]
            ELSE NoneResult

\* A call of derive_length_index.
DeriveLengthIndex(TypeCombineds) ==
    /\ pc = "idle"
    /\ \E type_combined \in TypeCombineds :
         Finish("derive_length_index", type_combined, <<>>, <<>>, 0,
                derive_length_index(type_combined))

(***************************************************************************)
(* get_benchmark, colour and length ranking.  The rows fetched are given   *)
(* as [rows, colours, lengths]: the number of rows, the colour values that *)
(* are not NULL (df['colour'].dropna()) and the length indices that are    *)
(* not None (df['length_index'].dropna()).  A length of the lot is a       *)
(* string (its code points) or an int.  The response is restricted to      *)
(* lot_ranking and n_lots.                                                 *)
(***************************************************************************)
\* scipy.stats.percentileofscore(a, score) of kind 'rank' on integers:
\* (left + right + (1 if right > left else 0)) * 50 / n
PercentileOfScore(a, score) ==
    LET left == Cardinality({i \in 1..Len(a) : a[i] < score})
        right == Cardinality({i \in 1..Len(a) : a[i] <= score})
        plus1 == IF left < right THEN 1 ELSE 0
    IN Rat((left + right + plus1) * 50, Len(a))

\* round(100 - percentileofscore(...), 1)
InvertedPercentile(a, score, tieUp) ==
    RoundTo(RSub(RInt(100), PercentileOfScore(a, score)), 10, tieUp)

\* The query of a time period; a custom period binds its dates.
BenchmarkQuery(data) ==
    LET custom == data.time_period = "custom" /\ Truthy(data.start_date)
        ended == custom /\ Truthy(data.end_date)
    IN [query |-> <<"SELECT price, micron, ... AND kg >= 50">>
                    \o (CASE data.time_period = "recent" ->
                                <<" AND sale_date >= DATE_SUB(CURDATE(), INTERVAL 6 MONTH)">>
                           [] data.time_period = "year" ->
                                <<" AND sale_date >= DATE_SUB(CURDATE(), INTERVAL 1 YEAR)">>
                           [] custom -> <<" AND sale_date >= %s">>
                           [] OTHER -> <<>>)
                    \o (IF ended THEN <<" AND sale_date <= %s">> ELSE <<>>),
        params |-> (IF custom THEN <<data.start_date>> ELSE <<>>)
                     \o (IF ended THEN <<data.end_date>> ELSE <<>>)]

\* length_val: `if isinstance(length_val, str): length_val =
\* ord(length_val.upper()) - ord('A') + 1`; ord() takes one character.
LengthValue(length) ==
    IF length.kind = "str"
    THEN IF Len(length.chars) = 1 /\ Len(Upper(length.chars[1])) = 1
         THEN [kind |-> "int", val |-> Upper(length.chars[1])[1] - 65 + 1]
         ELSE [kind |-> "TypeError", val |-> 0]
    ELSE [kind |-> "int", val |-> length.val]

\* The ranking raises when the length cannot be converted.
RankingRaises(specs) == specs.length.present /\ LengthValue(specs.length).kind # "int"

\* lot_ranking: colour_percentile is there when specs has a colour,
\* length_percentile when it has a length.
LotRanking(specs, population, tieUp) ==
    [colour_percentile |->
       IF specs.colour.present
       THEN Given(InvertedPercentile(population.colours, specs.colour.val, tieUp))
       ELSE Omitted,
     length_percentile |->
       IF specs.length.present
       THEN Given(InvertedPercentile(population.lengths, LengthValue(specs.length).val, tieUp))
       ELSE Omitted]

\* POST /api/metrics/benchmark
Benchmark(Requests, Populations) ==
    /\ pc = "idle"
    /\ \E req \in Requests, population \in Populations, tieUp \in BOOLEAN :
         IF population.rows < MIN_POPULATION
         THEN Finish("benchmark", req, <<BenchmarkQuery(req)>>, population, 200,
                     ErrorResponse("Insufficient data for benchmarking"))
         ELSE IF RankingRaises(req.specs)
         THEN Finish("benchmark", req, <<BenchmarkQuery(req)>>, population, 500,
                     ErrorResponse("exception"))
         ELSE Finish("benchmark", req, <<BenchmarkQuery(req)>>, population, 200,
                     [kind |-> "benchmark",
                      time_period |-> req.time_period,
                      lot_ranking |-> LotRanking(req.specs, population, tieUp),
                      n_lots |-> population.rows])

(***************************************************************************)
(* get_distribution.  The values of the variable and the bin size are      *)
(* whole numbers of a unit that doubles represent exactly (half a micron,  *)
(* say), so that np.arange and the comparisons are exact.  A fetched row   *)
(* is [missing, value, bales]: missing when the value or the bales are     *)
(* NULL.  The statistics are restricted to min, max and count.             *)
(***************************************************************************)
\* The kilograms a bale is counted as.
KG_PER_BALE == 120

\* The `for key, value in filters.items()` loop: a BETWEEN for an allowed
\* column whose value is a dict with min and max.
RECURSIVE ApplyRanges(_, _)
ApplyRanges(acc, ranges) ==
    IF ranges = <<>> THEN acc
    ELSE LET r == Head(ranges)
         IN ApplyRanges(
              IF r.key \in ALLOWED_COLUMNS /\ r.key \notin {"start_date", "end_date"}
                 /\ r.kind = "range"
              THEN [acc EXCEPT !.query = Append(@, " AND " \o r.key \o " BETWEEN %s AND %s"),
                               !.params = @ \o <<r.min, r.max>>]
              ELSE acc,
              Tail(ranges))

\* `if filters.get('start_date')` / `if filters.get('end_date')`
ApplyDateRange(acc, filters) ==
    LET a1 == IF Truthy(filters.start_date)
              THEN [acc EXCEPT !.query = Append(@, " AND sale_date >= %s"),
                               !.params = Append(@, filters.start_date)]
              ELSE acc
    IN IF Truthy(filters.end_date)
       THEN [a1 EXCEPT !.query = Append(@, " AND sale_date <= %s"),
                       !.params = Append(@, filters.end_date)]
       ELSE a1

DistributionBase(variable) ==
    "SELECT " \o (IF variable \in ALLOWED_COLUMNS THEN variable ELSE "micron")
      \o ", bales, kg, micron FROM auction_data_joined WHERE price > 0 AND micron >= 10.0"

DistributionQuery(variable, filters) ==
    LET a0 == [query |-> <<DistributionBase(variable)>>
                           \o (IF variable = "colour" THEN <<" AND micron >= 25.0">> ELSE <<>>),
               params |-> <<>>]
    IN ApplyRanges(ApplyDateRange(a0, filters), filters.ranges)

\* data_points
DataPoints(rows) == SelectSeq(rows, LAMBDA r : ~r.missing)

MinValue(points) ==
    CHOOSE v \in {points[i].value : i \in 1..Len(points)} :
       \A i \in 1..Len(points) : v <= points[i].value

MaxValue(points) ==
    CHOOSE v \in {points[i].value : i \in 1..Len(points)} :
       \A i \in 1..Len(points) : v >= points[i].value

\* len(np.arange(min_val, max_val + bin_size, bin_size)):
\* ceil((max_val + bin_size - min_val) / bin_size)
BinEdges(min_val, max_val, bin_size) ==
    (max_val - min_val + 2 * bin_size - 1) \div bin_size

\* sum of the bales of the points with bin_start <= value < bin_end
BinBales(points, bin_start, bin_end) ==
    SumSeq([i \in 1..Len(points) |->
              IF bin_start <= points[i].value /\ points[i].value < bin_end
              THEN points[i].bales ELSE 0])

\* histogram: one bin for each pair of consecutive edges
Histogram(points, bin_size) ==
    LET min_val == MinValue(points)
        edges == BinEdges(min_val, MaxValue(points), bin_size)
    IN [i \in 1..(edges - 1) |->
          [bin_start |-> min_val + (i - 1) * bin_size,
           bin_end |-> min_val + i * bin_size,
           kg |-> BinBales(points, min_val + (i - 1) * bin_size, min_val + i * bin_size)
                    * KG_PER_BALE]]

\* row[variable] raises KeyError when the variable is not a selected column.
VariableSelected(variable) == variable \in ALLOWED_COLUMNS

\* POST /api/metrics/distribution
Distribution(Requests, RowLists) ==
    /\ pc = "idle"
    /\ \E req \in Requests, rows \in RowLists :
         LET q == <<DistributionQuery(req.variable, req.filters)>>
         IN IF rows = <<>>
            THEN Finish("distribution", req, q, rows, 200,
                        ErrorResponse("No data found for the specified filters"))
            ELSE IF ~VariableSelected(req.variable)
            THEN Finish("distribution", req, q, rows, 500, ErrorResponse("exception"))
            ELSE IF DataPoints(rows) = <<>>
            THEN Finish("distribution", req, q, rows, 200,
                        ErrorResponse("No valid data for the selected variable"))
            ELSE Finish("distribution", req, q, rows, 200,
                        [kind |-> "distribution",
                         variable |-> req.variable,
                         statistics |-> [min |-> MinValue(DataPoints(rows)),
                                         max |-> MaxValue(DataPoints(rows)),
                                         count |-> Len(DataPoints(rows))],
                         histogram |-> Histogram(DataPoints(rows), req.bin_size)])

(***************************************************************************)
(* get_timeseries.  A fetched row is [period, micron]: the week or month   *)
(* of its sale_date (the rows come ordered by sale_date) and its micron,   *)
(* which the BETWEEN of the query keeps from being NULL.  The series are   *)
(* restricted to the micron column of the rows.                            *)
(***************************************************************************)
\* variables = [v for v in variables if v in ALLOWED_COLUMNS], or ['micron']
TimeseriesVariables(variables) ==
    IF SelectSeq(variables, LAMBDA v : v \in ALLOWED_COLUMNS) = <<>>
    THEN <<"micron">>
    ELSE SelectSeq(variables, LAMBDA v : v \in ALLOWED_COLUMNS)

\* The query of get_timeseries with its micron and date filters.
TimeseriesQuery(filters) ==
    [query |-> <<"SELECT sale_date, price, bales, ... WHERE price > 0 ... AND kg >= 50",
                 " AND micron BETWEEN %s AND %s",
                 " AND sale_date >= %s">>
                 \o (IF Truthy(filters.end_date) THEN <<" AND sale_date <= %s">> ELSE <<>>)
                 \o <<" ORDER BY sale_date">>,
     params |-> <<filters.min_micron, filters.max_micron,
                  IF Truthy(filters.start_date) THEN filters.start_date ELSE Str("2012-07-01")>>
                  \o (IF Truthy(filters.end_date) THEN <<filters.end_date>> ELSE <<>>)]

\* The periods of df.groupby('period'), in order.
Periods(rows) == SortedSeq({rows[i].period : i \in 1..Len(rows)})

\* round(float(grouped['micron'].mean()[period]), 2)
PeriodMean(rows, period, tieUp) ==
    RoundTo(Rat(SumSeq([i \in 1..Len(rows) |->
                          IF rows[i].period = period THEN rows[i].micron ELSE 0]),
                Cardinality({i \in 1..Len(rows) : rows[i].period = period})),
            100, tieUp)

\* formatted_series, as the sequence of [variable, labels, values] of the
\* variables that are columns of the rows.
FormattedSeries(variables, rows, tieUp) ==
    [k \in 1..(IF "micron" \in Range(variables) THEN 1 ELSE 0) |->
       [variable |-> "micron",
        labels |-> Periods(rows),
        values |-> [i \in 1..Len(Periods(rows)) |->
                      PeriodMean(rows, Periods(rows)[i], tieUp)]]]

\* POST /api/metrics/timeseries
Timeseries(Requests, RowLists) ==
    /\ pc = "idle"
    /\ \E req \in Requests, rows \in RowLists, tieUp \in BOOLEAN :
         IF rows = <<>>
         THEN Finish("timeseries", req, <<TimeseriesQuery(req.filters)>>, rows, 200,
                     ErrorResponse("No data found"))
         ELSE Finish("timeseries", req, <<TimeseriesQuery(req.filters)>>, rows, 200,
                     [kind |-> "timeseries",
                      aggregation |-> req.aggregation,
                      series |-> FormattedSeries(TimeseriesVariables(req.variables),
                                                 rows, tieUp)])

(***************************************************************************)
(* categorize_wool_data (export_data_loader.py).  A dataframe is the       *)
(* sequence of the HS codes of its rows, as str(hs_code) gives them; the   *)
(* result carries the three columns the function adds.                     *)
(***************************************************************************)
\* The categories and their HS codes, in the order of the dict.
WOOL_HS_CODES ==
    <<[category |-> "greasy_fine", codes |-> {"5101110002"}],
      [category |-> "greasy_medium", codes |-> {"5101110004"}],
      [category |-> "greasy_coarse", codes |-> {"5101110006"}],
      [category |-> "greasy_very_coarse", codes |-> {"5101110008"}],
      [category |-> "degreased_fine", codes |-> {"5101210002"}],
      [category |-> "degreased_medium", codes |-> {"5101210004"}],
      [category |-> "degreased_coarse", codes |-> {"5101210006"}],
      [category |-> "degreased_very_coarse", codes |-> {"5101210008"}],
      [category |-> "carded", codes |-> {"5105100000"}],
      [category |-> "combed", codes |-> {"5105210000"}],
      [category |-> "yarn_carpet", codes |-> {"5106100101"}],
      [category |-> "yarn_85plus", codes |-> {"5109100001", "5109100009", "5109100019"}],
      [category |-> "yarn_less85", codes |-> {"5109900001", "5109900019"}]>>

\* `needle in text` on two strings.
StrIn(needle, text) ==
    \E i \in 1..(Len(text) - Len(needle) + 1) :
       SubSeq(text, i, i + Len(needle) - 1) = needle

\* The first category that lists the code, or 'other'.
get_wool_category(hs_str) ==
    IF \E k \in 1..Len(WOOL_HS_CODES) : hs_str \in WOOL_HS_CODES[k].codes
    THEN WOOL_HS_CODES[CHOOSE k \in 1..Len(WOOL_HS_CODES) :
                         /\ hs_str \in WOOL_HS_CODES[k].codes
                         /\ \A j \in 1..(k - 1) : hs_str \notin WOOL_HS_CODES[j].codes].category
    ELSE "other"

get_processing_stage(category) ==
    IF StrIn("greasy", category) THEN "Greasy"
    ELSE IF StrIn("degreased", category) THEN "Degreased/Scoured"
    ELSE IF StrIn("carded", category) THEN "Carded"
    ELSE IF StrIn("combed", category) THEN "Combed/Tops"
    ELSE IF StrIn("yarn", category) THEN "Yarn"
    ELSE "Other"

get_micron_range(category) ==
    IF StrIn("fine", category) THEN "< 24.5"
    ELSE IF StrIn("medium", category) THEN "24.5-31.4"
    ELSE IF StrIn("coarse", category) THEN "31.4-35.4"
    ELSE IF StrIn("very_coarse", category) THEN "> 35.4"
    ELSE "N/A"

\* The dataframe categorize_wool_data returns: an empty one as it came.
categorize_wool_data(df) ==
    [i \in 1..Len(df) |->
       [hs |-> df[i],
        wool_category |-> get_wool_category(df[i]),
        processing_stage |-> get_processing_stage(get_wool_category(df[i])),
        micron_range |-> get_micron_range(get_wool_category(df[i]))]]

CategorizeWoolData(Frames) ==
    /\ pc = "idle"
    /\ \E df \in Frames :
         Finish("categorize_wool_data", df, <<>>, <<>>, 200,
                [kind |-> "dataframe", rows |-> categorize_wool_data(df)])

(***************************************************************************)
(* get_db and get_db_connection (db_connector.py).  The threads of one     *)
(* worker process share _worker_conn and _worker_tunnel.  tunnels[k] is    *)
(* the state of the k-th SSHTunnelForwarder the worker has started.  A     *)
(* thread is [at, attempt, tunnel]: where it is in get_db, the attempt of  *)
(* its retry loop, and the tunnel the attempt in progress has started      *)
(* (the local `tunnel` of get_db_connection, which no code can reach once  *)
(* get_db_connection has raised).  Each step below is taken as atomic, and *)
(* tunnel.stop() as stopping the tunnel.  _tunnel_lock is created at       *)
(* module level and acquired nowhere: no step waits for it.                *)
(***************************************************************************)
Threads == 1..MaxThreads

\* max_retries
MAX_RETRIES == 3

\* _worker_conn = None
NoConnection == [tunnel |-> 0, connected |-> FALSE]

NotInGetDb == [at |-> "out", attempt |-> 0, tunnel |-> 0]

\* `_worker_conn and _worker_conn.is_connected() and _worker_tunnel`
ExistingValid == worker_conn.tunnel # 0 /\ worker_conn.connected /\ worker_tunnel # 0

\* A request handler calls get_db().
EnterGetDb(t) ==
    /\ threads[t].at = "out"
    /\ threads' = [threads EXCEPT ![t] = [at |-> "check", attempt |-> 0, tunnel |-> 0]]
    /\ UNCHANGED <<worker_conn, worker_tunnel, tunnels>>
    /\ UNCHANGED <<requestVars, fileVars>>

\* The existing connection is returned, or the retry loop is entered.
CheckExisting(t) ==
    /\ threads[t].at = "check"
    /\ threads' = [threads EXCEPT ![t].at = IF ExistingValid THEN "out" ELSE "connect"]
    /\ UNCHANGED <<worker_conn, worker_tunnel, tunnels>>
    /\ UNCHANGED <<requestVars, fileVars>>

\* get_db_connection up to tunnel.start(): the tunnel runs, or start raises.
TunnelStart(t) ==
    /\ threads[t].at = "connect"
    /\ \/ /\ Len(tunnels) < MaxTunnels
          /\ tunnels' = Append(tunnels, "running")
          /\ threads' = [threads EXCEPT ![t].at = "tunnel_started",
                                         ![t].tunnel = Len(tunnels) + 1]
       \/ /\ threads' = [threads EXCEPT ![t].at = "except"]
          /\ UNCHANGED tunnels
    /\ UNCHANGED <<worker_conn, worker_tunnel>>
    /\ UNCHANGED <<requestVars, fileVars>>

\* mysql.connector.connect through the tunnel: get_db_connection returns
\* (conn, tunnel) and get_db stores and returns them, or connect raises.
MySqlConnect(t) ==
    /\ threads[t].at = "tunnel_started"
    /\ \/ /\ worker_conn' = [tunnel |-> threads[t].tunnel, connected |-> TRUE]
          /\ worker_tunnel' = threads[t].tunnel
          /\ threads' = [threads EXCEPT ![t] = NotInGetDb]
       \/ /\ threads' = [threads EXCEPT ![t].at = "except"]
          /\ UNCHANGED <<worker_conn, worker_tunnel>>
    /\ UNCHANGED tunnels
    /\ UNCHANGED <<requestVars, fileVars>>

\* The except clause: _worker_tunnel is stopped if there is one, both
\* globals are cleared, and the loop sleeps and retries or raises.
CleanUp(t) ==
    /\ threads[t].at = "except"
    /\ tunnels' = IF worker_tunnel # 0 THEN [tunnels EXCEPT ![worker_tunnel] = "stopped"]
                  ELSE tunnels
    /\ worker_tunnel' = 0
    /\ worker_conn' = NoConnection
    /\ threads' = [threads EXCEPT ![t] =
                     IF threads[t].attempt < MAX_RETRIES - 1
                     THEN [at |-> "connect", attempt |-> threads[t].attempt + 1, tunnel |-> 0]
                     ELSE NotInGetDb]
    /\ UNCHANGED <<requestVars, fileVars>>

\* The server or the network drops the connection the worker keeps.
ConnectionLost ==
    /\ worker_conn.connected
    /\ worker_conn' = [worker_conn EXCEPT !.connected = FALSE]
    /\ UNCHANGED <<worker_tunnel, tunnels, threads>>
    /\ UNCHANGED <<requestVars, fileVars>>

(***************************************************************************)
(* update_export_data.py on one export file.  files maps the three names   *)
(* the script uses (the target <name>.csv, <name>.csv.tmp and              *)
(* <name>.csv.tmp.tmp) to their content: 0 when the name does not exist,   *)
(* v when it holds the complete version v, -v when it holds a part of      *)
(* version v.  updater is [at, existing, version]: where the script is,    *)
(* whether it found the file among the existing ones, and the version the  *)
(* website serves to it.  A crash stops the script where it is; cron       *)
(* starts it again.  observed is what load_export_data last found under    *)
(* the target name.                                                        *)
(***************************************************************************)
NotRunning == [at |-> "idle", existing |-> FALSE, version |-> 0]

\* download_file(url, filename): filepath, and temp_filepath = filepath + '.tmp'
DownloadPath == IF updater.existing THEN "tmp" ELSE "target"

DownloadTempPath == IF updater.existing THEN "tmptmp" ELSE "tmp"

\* check_and_update_files reaches the link of the file: `if filename in
\* existing_files`, then download_file up to requests.get.
StartUpdate ==
    /\ updater.at = "idle"
    /\ \E v \in 1..MaxVersions :
         updater' = [at |-> "open", existing |-> files["target"] # 0, version |-> v]
    /\ UNCHANGED <<files, observed>>
    /\ UNCHANGED <<requestVars, workerVars>>

\* open(temp_filepath, 'wb') and the first chunks
OpenTemp ==
    /\ updater.at = "open"
    /\ files' = [files EXCEPT ![DownloadTempPath] = 0 - updater.version]
    /\ updater' = [updater EXCEPT !.at = "write"]
    /\ UNCHANGED observed
    /\ UNCHANGED <<requestVars, workerVars>>

\* The last chunk is written and the file closed.
WriteChunks ==
    /\ updater.at = "write"
    /\ files' = [files EXCEPT ![DownloadTempPath] = updater.version]
    /\ updater' = [updater EXCEPT !.at = "written"]
    /\ UNCHANGED observed
    /\ UNCHANGED <<requestVars, workerVars>>

\* The download raises, or the file is under 100 bytes: the temp file is
\* removed and download_file returns False.
DownloadFails ==
    /\ updater.at \in {"write", "written"}
    /\ files' = [files EXCEPT ![DownloadTempPath] = 0]
    /\ updater' = NotRunning
    /\ UNCHANGED observed
    /\ UNCHANGED <<requestVars, workerVars>>

\* `if os.path.exists(filepath): os.remove(filepath)` of download_file
RemoveDownloadPath ==
    /\ updater.at = "written"
    /\ files' = [files EXCEPT ![DownloadPath] = 0]
    /\ updater' = [updater EXCEPT !.at = "rename"]
    /\ UNCHANGED observed
    /\ UNCHANGED <<requestVars, workerVars>>

\* os.rename(temp_filepath, filepath) of download_file; a new file is done.
RenameDownload ==
    /\ updater.at = "rename"
    /\ files' = [files EXCEPT ![DownloadPath] = files[DownloadTempPath],
                              ![DownloadTempPath] = 0]
    /\ updater' = IF updater.existing THEN [updater EXCEPT !.at = "compare"] ELSE NotRunning
    /\ UNCHANGED observed
    /\ UNCHANGED <<requestVars, workerVars>>

\* The status, size and hash of the download against the existing file:
\* a changed file is replaced or left, an unchanged one is left, and the
\* download is removed when the file is left.
Compare ==
    /\ updater.at = "compare"
    /\ \/ /\ files["tmp"] # files["target"]
          /\ updater' = [updater EXCEPT !.at = "replace"]
          /\ UNCHANGED files
       \/ /\ files' = [files EXCEPT !["tmp"] = 0]
          /\ updater' = NotRunning
    /\ UNCHANGED observed
    /\ UNCHANGED <<requestVars, workerVars>>

\* `if os.path.exists(filepath): os.remove(filepath)`
RemoveTarget ==
    /\ updater.at = "replace"
    /\ files' = [files EXCEPT !["target"] = 0]
    /\ updater' = [updater EXCEPT !.at = "swap"]
    /\ UNCHANGED observed
    /\ UNCHANGED <<requestVars, workerVars>>

\* os.rename(temp_path, filepath)
RenameTemp ==
    /\ updater.at = "swap"
    /\ files' = [files EXCEPT !["target"] = files["tmp"], !["tmp"] = 0]
    /\ updater' = NotRunning
    /\ UNCHANGED observed
    /\ UNCHANGED <<requestVars, workerVars>>

\* The script is killed where it is.
Crash ==
    /\ updater.at # "idle"
    /\ updater' = NotRunning
    /\ UNCHANGED <<files, observed>>
    /\ UNCHANGED <<requestVars, workerVars>>

\* load_export_data on the file: os.path.exists, then pd.read_csv.
LoadExportData ==
    /\ observed' = files["target"]
    /\ UNCHANGED <<files, updater>>
    /\ UNCHANGED <<requestVars, workerVars>>

Init ==
    /\ pc = "idle"
    /\ endpoint = "none"
    /\ request = <<>>
    /\ executed = <<>>
    /\ fetched = <<>>
    /\ status = 0
    /\ response = <<>>
    /\ values = <<>>
    /\ interpolated = <<>>
    /\ idx = 0
    /\ worker_conn = NoConnection
    /\ worker_tunnel = 0
    /\ tunnels = <<>>
    /\ threads = [t \in Threads |-> NotInGetDb]
    /\ files = [name \in {"target", "tmp", "tmptmp"} |-> IF name = "target" THEN 1 ELSE 0]
    /\ updater = NotRunning
    /\ observed = 1

(***************************************************************************)
(* The inputs the handlers are run on.                                     *)
(***************************************************************************)
Predicate(c, o, v, v2) == [column |-> c, operator |-> o, value |-> v, value2 |-> v2]

\* Every operator of the chain on a whitelisted column; a missing and a
\* falsy value and value2; a missing, a non-whitelisted and an unhashable
\* column; a missing and an unknown operator.
Predicates ==
    {Predicate(Str("price"), Str(o), Str("7"), Str("9")) : o \in SearchOperators \cup {"like"}}
    \cup {Predicate(Str("is_sold"), Str(o), v, Null) :
            o \in {"eq", "between"}, v \in {Null, Num("0"), Str("1")}}
    \cup {Predicate(Str("price"), Str("between"), Str("7"), Num("0"))}
    \cup {Predicate(c, Str("eq"), Str("13"), Str("17")) :
            c \in {Null, Str("id"), List("price")}}
    \cup {Predicate(Str("id"), Str("between"), Str("13"), Str("17")),
          Predicate(Str("id"), Str("contains"), Str("13"), Null),
          Predicate(Str("price"), Null, Str("7"), Null)}

Terms == {Null, Str("  "), Str(" 28A ")}

\* Every term with at most one predicate, and one term with every list of
\* predicates.
FilterRequests ==
    {[wool_type_search |-> t, column_filters |-> fs] :
       t \in Terms, fs \in SeqsUpTo(Predicates, 1)}
    \cup {[wool_type_search |-> Str(" 28A "), column_filters |-> fs] :
            fs \in SeqsUpTo(Predicates, MaxFilters)}

PlainRequests == {[wool_type_search |-> Str(" 28A "), column_filters |-> <<>>]}

Row(d, p, b) == [sale_date |-> d, price |-> p, bales |-> b]

\* ORDER BY sale_date ASC
DateOrdered(rows) == \A i \in 1..Len(rows) - 1 : rows[i].sale_date <= rows[i + 1].sale_date

FewRows == {<<Row(1, 50, 1), Row(2, 100, 2)>>}

\* Prices in cents (above the floor of 10 of the queries) and bales.
Prices == {50, 52, 100, 1050}
Bales == {1, 2}

AggregateRows ==
    {rows \in SeqsUpTo({Row(d, p, b) : d \in {1, 2}, p \in Prices, b \in Bales}, MaxRows) :
       DateOrdered(rows)}

Types == {"28A", "30B"}

\* Row lists with NULL or zero dates, prices and bales (0), and with bales
\* that cancel on a date (-1 and 1), NULL dates first.
DirtyRows ==
    {rows \in SeqsUpTo({Row(d, p, b) : d \in {0, 1, 2}, p \in {0, 50}, b \in {0 - 1, 0, 1}},
                       MaxRows) :
       DateOrdered(rows)}

\* The rows of 28A; 30B has none.
DirtyResults == {[t \in Types |-> IF t = "28A" THEN rows ELSE <<>>] : rows \in DirtyRows}

\* The rows of one wool type in the comparisons: one price per type and one
\* lot per day.
TypeRows(p) ==
    {rows \in SeqsUpTo({Row(d, p, 1) : d \in {1, 2, 3}}, MaxCompareRows) :
       \A i \in 1..Len(rows) - 1 : rows[i].sale_date < rows[i + 1].sale_date}

CompareResults ==
    {[t \in Types |-> IF t = "28A" THEN a ELSE b] : a \in TypeRows(50), b \in TypeRows(100)}

\* The rows of one wool type with prices that vary: one lot per day.
VaryingRows ==
    {rows \in SeqsUpTo({Row(d, p, 1) : d \in {1, 2, 3}, p \in {50, 51, 101}}, MaxCompareRows) :
       \A i \in 1..Len(rows) - 1 : rows[i].sale_date < rows[i + 1].sale_date}

VaryingResults ==
    {[t \in Types |-> IF t = "28A" THEN a ELSE b] : a \in VaryingRows, b \in VaryingRows}

FewResults ==
    {[t \in Types |-> <<>>],
     [t \in Types |-> IF t = "28A" THEN <<Row(1, 50, 1)>> ELSE <<Row(2, 100, 1)>>]}

\* compare_chart: few wool types on all results, and every count up to one
\* above the cap on few results.
CompareRequests(maxTypes) ==
    {[wool_types |-> ts, column_filters |-> <<>>] : ts \in SeqsUpTo(Types, maxTypes)}

CompareFilterRequests ==
    {[wool_types |-> <<"28A">>, column_filters |-> fs] :
       fs \in SeqsUpTo(Predicates, MaxFilters)}

Entry(ts, l, fs) == [types |-> ts, label |-> l, filters |-> fs]

\* Blend entries: one without types, two single types, and a group that
\* shares its label with a single type.
Entries ==
    {Entry(<<>>, "Z", <<>>), Entry(<<"28A">>, "X", <<>>),
     Entry(<<"30B">>, "Y", <<>>), Entry(<<"28A", "30B">>, "X", <<>>)}

\* One entry: a single type or a blend of the two.
OneEntryRequests ==
    {[entries |-> <<Entry(ts, "X", <<>>)>>, date_filter |-> NoDateFilter] :
       ts \in {<<"28A">>, <<"28A", "30B">>}}

BlendRequests(EntrySet, maxEntries) ==
    {[entries |-> es, date_filter |-> NoDateFilter] : es \in SeqsUpTo(EntrySet, maxEntries)}

DateFilters ==
    {NoDateFilter,
     [present |-> TRUE, operator |-> Str("gte"), value |-> Str("2024-01-31"), value2 |-> Null],
     [present |-> TRUE, operator |-> Str("between"), value |-> Str("2024-01-31"), value2 |-> Null],
     [present |-> TRUE, operator |-> Str("ne"), value |-> Str("2024-01-31"), value2 |-> Null],
     [present |-> TRUE, operator |-> Str("lt"), value |-> Null, value2 |-> Null]}

BlendFilterRequests ==
    {[entries |-> <<Entry(<<"28A">>, "X", fs)>>, date_filter |-> df] :
       fs \in SeqsUpTo(Predicates, 1), df \in DateFilters}
    \cup {[entries |-> <<Entry(<<"28A">>, "X", fs)>>, date_filter |-> NoDateFilter] :
            fs \in SeqsUpTo(Predicates, MaxFilters)}

\* The parameters of a fitted model: the intercept and one coefficient per
\* feature, in thousandths, spread by c.
Params(c) ==
    [n \in CoefNames |->
       CASE n = "intercept" -> Rat(100004 + 10 * c, 1000)
         [] n = "micron" -> Rat(0 - 2004 - 10 * c, 1000)
         [] n = "colour" -> Rat(0 - 1004 - 20 * c, 1000)
         [] n = "length_index" -> Rat(3004 + 10 * c, 1000)
         [] n = "vegetable_matter" -> Rat(0 - 504 - 30 * c, 1000)]

Cohort(rows, valid, fit, r2, c) ==
    [rows |-> rows, valid |-> valid, fit |-> fit, r2 |-> r2, adj |-> r2 - 1004,
     coef |-> Params(c)]

\* Weeks around the three thresholds, a week whose fit raises, and good
\* weeks with other coefficients.
Cohorts ==
    {Cohort(19, 19, "ok", 40000, 1), Cohort(20, 19, "ok", 40000, 1),
     Cohort(20, 20, "ok", 40000, 1), Cohort(20, 20, "ok", 39996, 1),
     Cohort(20, 20, "ok", 39000, 1), Cohort(20, 20, "raises", 40000, 1),
     Cohort(21, 20, "ok", 90000, 2), Cohort(25, 25, "ok", 90000, 4)}

NoRegressionFilters ==
    [min_micron |-> Num("30"), max_micron |-> Num("42"), start_date |-> Null, end_date |-> Null]

Window(present, val) == [present |-> present, val |-> val]

RegressionRequests ==
    {[filters |-> NoRegressionFilters, smooth_window |-> w] :
       w \in {Window(FALSE, 0), Window(TRUE, 1), Window(TRUE, 2)}}
    \cup {[filters |-> [NoRegressionFilters EXCEPT !.start_date = Str("2024-01-01"),
                                                  !.end_date = Str("2024-06-30")],
           smooth_window |-> Window(TRUE, 0)]}

FeatureVector(micron, colour, vm) ==
    [f \in Features |->
       CASE f = "micron" -> micron
         [] f = "colour" -> colour
         [] f = "length_index" -> Omitted
         [] f = "vegetable_matter" -> vm]

ScenarioRequests ==
    {[baseline |-> FeatureVector(bm, Omitted, bv), scenario |-> FeatureVector(sm, sc, sv)] :
       bm \in {Omitted, Given(RInt(30))},
       bv \in {Omitted, Given(Rat(1, 2))},
       sm \in {Omitted, Given(RInt(30)), Given(RInt(36))},
       sc \in {Omitted, Given(RInt(4))},
       sv \in {Omitted, Given(Rat(1, 2)), Given(Rat(3, 10))}}

\* Populations around the minimum: too few rows, just enough, and enough
\* rows of which some lack a feature.
ScenarioPopulations ==
    {[rows |-> r[1], valid |-> r[2], params |-> Params(c), adj |-> 61234] :
       r \in {<<0, 0>>, <<49, 49>>, <<50, 50>>, <<50, 49>>, <<60, 12>>}, c \in {1, 2}}

\* The characters of a type_combined: A, a, D, Z, z, 2, 8, '-', ' ', and
\* the three letters outside ASCII.
Chars == {65, 97, 68, 90, 122, 50, 56, 45, 32, CapitalEAcute, SmallEAcute, SharpS}

\* None, the number 28, and every string of at most MaxChars characters.
TypeCombineds ==
    {[kind |-> "none", chars |-> <<>>], [kind |-> "number", chars |-> <<>>]}
      \cup {[kind |-> "str", chars |-> cs] : cs \in SeqsUpTo(Chars, MaxChars)}

\* Colour values of the reference population and of a lot.
ColourValues == 1..5

NoLength == [present |-> FALSE, kind |-> "none", chars |-> <<>>, val |-> 0]

LengthCode(c) == [present |-> TRUE, kind |-> "str", chars |-> <<c>>, val |-> 0]

LengthIndex(i) == [present |-> TRUE, kind |-> "int", chars |-> <<>>, val |-> i]

BenchmarkRequests ==
    {[specs |-> [colour |-> c, length |-> NoLength], time_period |-> t,
      start_date |-> Null, end_date |-> Null] :
       c \in {[present |-> FALSE, val |-> 0]}
                \cup {[present |-> TRUE, val |-> v] : v \in ColourValues},
       t \in {"recent", "year", "all"}}

\* The colours that are not NULL, in ascending order (the rank does not
\* depend on the order), among 49 or 50 rows.
BenchmarkPopulations ==
    {[rows |-> n, colours |-> a, lengths |-> <<1, 4, 4>>] :
       n \in {MIN_POPULATION - 1, MIN_POPULATION},
       a \in {b \in SeqsUpTo(ColourValues, MaxColours) :
                Len(b) >= 1 /\ \A i \in 1..(Len(b) - 1) : b[i] <= b[i + 1]}}

\* A lot with a length only: every character of Chars as a length code, and
\* precomputed indices.
LengthRequests ==
    {[specs |-> [colour |-> [present |-> FALSE, val |-> 0], length |-> l], time_period |-> t,
      start_date |-> Null, end_date |-> Null] :
       l \in {LengthCode(c) : c \in Chars} \cup {LengthIndex(i) : i \in {1, 4, 26}},
       t \in {"recent", "year", "all"}}

LengthPopulations ==
    {[rows |-> n, colours |-> <<3>>, lengths |-> a] :
       n \in {MIN_POPULATION - 1, MIN_POPULATION},
       a \in {<<1>>, <<1, 4, 4>>, <<1, 4, 4, 26>>, <<4, 26, 26>>}}

NoDistributionFilters == [start_date |-> Null, end_date |-> Null, ranges |-> <<>>]

RangeFilter(key, kind) == [key |-> key, kind |-> kind, min |-> Num("1"), max |-> Num("9")]

\* Bin sizes of one, two and three units on three variables, one of them
\* not a column.
HistogramRequests ==
    {[variable |-> v, bin_size |-> b, filters |-> NoDistributionFilters] :
       v \in {"micron", "colour", "staple"}, b \in 1..3}

Point(missing, value, bales) == [missing |-> missing, value |-> value, bales |-> bales]

\* Rows with values of 0 to 3 units and one or two bales, and rows with a
\* NULL.
PointLists ==
    SeqsUpTo({Point(FALSE, v, b) : v \in 0..3, b \in 1..2} \cup {Point(TRUE, 0, 0)}, MaxPoints)

\* A missing, an empty and a given date.
Dates == {Null, Str(""), Str("2024-01-01")}

\* Distribution requests with dates and with ranges: a dict with min and
\* max on two columns and on a key that is no column, and a scalar.
RangeRequests ==
    {[variable |-> "micron", bin_size |-> 1,
      filters |-> [start_date |-> s, end_date |-> e, ranges |-> rs]] :
       s \in Dates, e \in Dates,
       rs \in SeqsUpTo({RangeFilter("price", "range"), RangeFilter("colour", "range"),
                        RangeFilter("staple", "range"), RangeFilter("price", "scalar")},
                       MaxFilters)}

OnePoint == {<<>>, <<Point(FALSE, 1, 1)>>}

DatedFilters ==
    {[min_micron |-> Num("30"), max_micron |-> Num("42"), start_date |-> s, end_date |-> e] :
       s \in Dates, e \in Dates}

TimeseriesRequests ==
    {[variables |-> vs, aggregation |-> a, filters |-> f] :
       vs \in {<<>>, <<"micron">>, <<"staple">>, <<"location", "micron">>},
       a \in {"weekly", "monthly"}, f \in DatedFilters}

\* Rows of one or two periods, in date order.
PeriodRows ==
    {rows \in SeqsUpTo({[period |-> p, micron |-> m] : p \in 1..2, m \in {30, 33}}, MaxRows) :
       \A i \in 1..(Len(rows) - 1) : rows[i].period <= rows[i + 1].period}

DatedRegressionRequests ==
    {[filters |-> f, smooth_window |-> Window(FALSE, 0)] : f \in DatedFilters}

CustomRequests ==
    {[specs |-> [colour |-> [present |-> FALSE, val |-> 0], length |-> NoLength],
      time_period |-> t, start_date |-> s, end_date |-> e] :
       t \in {"recent", "custom", "all"}, s \in Dates, e \in Dates}

OnePopulation ==
    {[rows |-> n, colours |-> <<3>>, lengths |-> <<1>>] :
       n \in {MIN_POPULATION - 1, MIN_POPULATION}}

\* Every wool code and a code of another chapter.
HsCodes ==
    UNION {WOOL_HS_CODES[k].codes : k \in 1..Len(WOOL_HS_CODES)} \cup {"0204100000"}

HsFrames == SeqsUpTo(HsCodes, MaxFrame)

\* The series interpolate_series is called on: prices in dollars and None.
SeriesInputs == SeqsUpTo({NoneV} \cup {RInt(v) : v \in {5, 8, 10, 40}}, MaxLen)

(***************************************************************************)
(* Specifications: the filter compiler on every endpoint; the aggregation  *)
(* of price_chart and compare_chart; the comparison endpoints; the         *)
(* interpolation loop.                                                     *)
(***************************************************************************)
NextFilter ==
    \/ Search(FilterRequests, FewRows)
    \/ BalesChart(FilterRequests, FewRows)
    \/ PriceChart(FilterRequests, FewRows)
    \/ CompareChart(CompareFilterRequests, FewResults)
    \/ CompareChartBlend(BlendFilterRequests, FewResults)
    \/ Respond

SpecFilter == Init /\ [][NextFilter]_vars

NextAggregate ==
    \/ PriceChart(PlainRequests, AggregateRows)
    \/ CompareChart({[wool_types |-> <<"28A">>, column_filters |-> <<>>]},
                    {[t \in Types |-> rows] : rows \in AggregateRows})
    \/ Respond

SpecAggregate == Init /\ [][NextAggregate]_vars

NextCompare ==
    \/ CompareChart(CompareRequests(MaxEntities), CompareResults)
    \/ CompareChart(CompareRequests(MAX_COMPARE + 1), FewResults)
    \/ CompareChartBlend(BlendRequests(Entries, MaxEntities), CompareResults)
    \/ CompareChartBlend(BlendRequests(Entries, MAX_COMPARE + 1), FewResults)
    \/ Respond

SpecCompare == Init /\ [][NextCompare]_vars

NextInterpolate ==
    \/ InterpolateCall(SeriesInputs)
    \/ InterpolateStep
    \/ InterpolateReturn
    \/ InterpolateDone

SpecInterpolate == Init /\ [][NextInterpolate]_vars

NextRegression ==
    \/ Regression(RegressionRequests, SeqsUpTo(Cohorts, MaxWeeks))
    \/ Respond

SpecRegression == Init /\ [][NextRegression]_vars

NextScenario ==
    \/ Scenario(ScenarioRequests, ScenarioPopulations)
    \/ Respond

SpecScenario == Init /\ [][NextScenario]_vars

NextDirtyRows ==
    \/ PriceChart(PlainRequests, DirtyRows)
    \/ CompareChart({[wool_types |-> <<"28A">>, column_filters |-> <<>>]}, DirtyResults)
    \/ CompareChartBlend({[entries |-> <<Entry(<<"28A", "30B">>, "X", <<>>)>>,
                           date_filter |-> NoDateFilter]},
                         DirtyResults)
    \/ Respond

SpecDirtyRows == Init /\ [][NextDirtyRows]_vars

NextBlend ==
    \/ CompareChartBlend(OneEntryRequests, VaryingResults)
    \/ Respond

SpecBlend == Init /\ [][NextBlend]_vars

NextBenchmark ==
    \/ Benchmark(BenchmarkRequests, BenchmarkPopulations)
    \/ Respond

SpecBenchmark == Init /\ [][NextBenchmark]_vars

NextBenchmarkLength ==
    \/ Benchmark(LengthRequests, LengthPopulations)
    \/ Respond

SpecBenchmarkLength == Init /\ [][NextBenchmarkLength]_vars

NextDistribution ==
    \/ Distribution(HistogramRequests, PointLists)
    \/ Respond

SpecDistribution == Init /\ [][NextDistribution]_vars

NextQueries ==
    \/ Search(FilterRequests, FewRows)
    \/ BalesChart(FilterRequests, FewRows)
    \/ PriceChart(FilterRequests, FewRows)
    \/ CompareChart(CompareFilterRequests, FewResults)
    \/ CompareChartBlend(BlendFilterRequests, FewResults)
    \/ Distribution(RangeRequests, OnePoint)
    \/ Timeseries(TimeseriesRequests, PeriodRows)
    \/ Regression(DatedRegressionRequests, SeqsUpTo(Cohorts, 1))
    \/ Benchmark(CustomRequests, OnePopulation)
    \/ Respond

SpecQueries == Init /\ [][NextQueries]_vars

NextCategorize ==
    \/ CategorizeWoolData(HsFrames)
    \/ Respond

SpecCategorize == Init /\ [][NextCategorize]_vars

NextConnect ==
    \/ \E t \in Threads :
          \/ EnterGetDb(t)
          \/ CheckExisting(t)
          \/ TunnelStart(t)
          \/ MySqlConnect(t)
          \/ CleanUp(t)
    \/ ConnectionLost

SpecConnect == Init /\ [][NextConnect]_vars

NextUpdater ==
    \/ StartUpdate
    \/ OpenTemp
    \/ WriteChunks
    \/ DownloadFails
    \/ RemoveDownloadPath
    \/ RenameDownload
    \/ Compare
    \/ RemoveTarget
    \/ RenameTemp
    \/ Crash
    \/ LoadExportData

SpecUpdater == Init /\ [][NextUpdater]_vars

NextLength ==
    \/ DeriveLengthIndex(TypeCombineds)
    \/ Respond

SpecLength == Init /\ [][NextLength]_vars

Next ==
    \/ NextFilter \/ NextAggregate \/ NextCompare \/ NextInterpolate
    \/ NextRegression \/ NextScenario \/ NextBenchmark \/ NextLength
    \/ NextDirtyRows \/ NextBlend \/ NextBenchmarkLength
    \/ NextDistribution \/ NextQueries \/ NextCategorize
    \/ NextConnect \/ NextUpdater

Spec == Init /\ [][Next]_vars

(***************************************************************************)
(* Properties of the filter compiler (SpecFilter).                         *)
(***************************************************************************)
FilterEndpoints ==
    {"search", "bales_chart", "price_chart", "compare_chart", "compare_chart_blend"}

Handled == pc = "done" /\ endpoint \in FilterEndpoints

\* The predicates the handled request carries.
RequestPredicates ==
    IF endpoint = "compare_chart_blend"
    THEN UNION {Range(request.entries[i].filters) : i \in 1..Len(request.entries)}
    ELSE Range(request.column_filters)

Present(v) == v # Null

OffWhitelist(column) == ~(column.kind = "str" /\ column.val \in ALLOWED_COLUMNS)

\* The text an f-string makes of a column.
ColumnText(column) ==
    CASE column.kind = "null" -> "None"
      [] column.kind = "list" -> "['" \o column.val \o "']"
      [] OTHER -> column.val

NamesColumn(q, f) ==
    \E op \in SearchOperators : Fragment(ColumnText(f.column), op) \in Range(q.query)

BindsValue(q, f) ==
    \E v \in {f.value, f.value2} :
       Present(v) /\ (v \in Range(q.params) \/ LikeWrap(v) \in Range(q.params))

\* No executed query names the column of an off-whitelist predicate or binds
\* one of its values.
WhitelistKeepsQueriesClean ==
    Handled =>
      \A f \in RequestPredicates :
         OffWhitelist(f.column) =>
           \A k \in 1..Len(executed) :
              ~NamesColumn(executed[k], f) /\ ~BindsValue(executed[k], f)

\* A request carrying an off-whitelist predicate is answered without error.
WhitelistSkipIsSilent ==
    Handled => \A f \in RequestPredicates : OffWhitelist(f.column) => status = 200

\* C1: on every filter-compiling endpoint a predicate whose column is not in
\* ALLOWED_COLUMNS adds no fragment and no bound parameter to any executed
\* query, and the request is still processed without error.
C1_WhitelistEnforced == WhitelistKeepsQueriesClean /\ WhitelistSkipIsSilent

SameShape(f, g) ==
    /\ f.column = g.column
    /\ f.operator = g.operator
    /\ Present(f.value) = Present(g.value)
    /\ Present(f.value2) = Present(g.value2)

\* Two bodies that differ only in the contents of value, value2 and the
\* search term.
SameShapeRequests(r, q) ==
    /\ Present(r.wool_type_search) = Present(q.wool_type_search)
    /\ Len(r.column_filters) = Len(q.column_filters)
    /\ \A i \in 1..Len(r.column_filters) :
          SameShape(r.column_filters[i], q.column_filters[i])

EndpointBase ==
    CASE endpoint = "search" -> SearchBase
      [] endpoint = "bales_chart" -> BalesBase
      [] endpoint = "price_chart" -> PriceBase

EndpointTail ==
    CASE endpoint = "search" -> SearchTail
      [] endpoint = "bales_chart" -> BalesTail
      [] endpoint = "price_chart" -> OrderTail

\* C2: on search, bales_chart and price_chart the query text of a request is
\* the text of every request with the same columns, the same operators and
\* the same presence of value, value2 and search term: only the bound
\* parameters depend on the contents of the values.
C2_TextIndependentOfValues ==
    (pc = "done" /\ endpoint \in {"search", "bales_chart", "price_chart"} /\ status = 200) =>
      \A other \in FilterRequests :
         SameShapeRequests(request, other) =>
           LET b == BuildQuery(EndpointBase, EndpointTail, other, SearchOperators)
           IN ~b.raised => b.query = executed[1].query

\* The acceptance rule as stated: whitelisted column, one of the nine
\* operators, a value that is present, and a value2 that is present for between.
StatedAccepts(f) ==
    /\ ~OffWhitelist(f.column)
    /\ f.operator.kind = "str"
    /\ f.operator.val \in SearchOperators
    /\ Present(f.value)
    /\ (f.operator.val = "between" => Present(f.value2))

RECURSIVE StatedFragments(_)
StatedFragments(filters) ==
    IF filters = <<>> THEN <<>>
    ELSE (IF StatedAccepts(Head(filters))
          THEN <<Fragment(Head(filters).column.val, Head(filters).operator.val)>>
          ELSE <<>>) \o StatedFragments(Tail(filters))

RECURSIVE StatedParams(_)
StatedParams(filters) ==
    IF filters = <<>> THEN <<>>
    ELSE (IF StatedAccepts(Head(filters))
          THEN FragmentParams(Head(filters).operator.val, Head(filters).value,
                              Head(filters).value2)
          ELSE <<>>) \o StatedParams(Tail(filters))

TypeSearchOf(req) ==
    ApplyTypeSearch([query |-> <<>>, params |-> <<>>, raised |-> FALSE],
                    req.wool_type_search)

\* C3: on the search endpoint the column filters add, in order, exactly one
\* fragment and its parameters for each predicate with a whitelisted column,
\* one of the nine operators, a present value and, for between, a present
\* value2; every other predicate adds nothing, and none raises an error.
C3_AcceptanceRule ==
    (pc = "done" /\ endpoint = "search") =>
      /\ status = 200
      /\ Len(executed) = 1
      /\ executed[1].query =
            <<SearchBase>> \o TypeSearchOf(request).query
               \o StatedFragments(request.column_filters) \o <<SearchTail>>
      /\ executed[1].params =
            TypeSearchOf(request).params \o StatedParams(request.column_filters)

\* What the column-filter loop of search appends for a list of predicates.
SearchCompiled(filters) ==
    ApplyFilters([query |-> <<>>, params |-> <<>>, raised |-> FALSE], filters, SearchOperators)

\* What the k-th executed query holds before the column filters: the base
\* text with the type search or the wool type, and the shared date filter.
BeforeFilters(k) ==
    CASE endpoint \in {"search", "bales_chart", "price_chart"} ->
           [query |-> <<EndpointBase>> \o TypeSearchOf(request).query,
            params |-> TypeSearchOf(request).params]
      [] endpoint = "compare_chart" ->
           [query |-> <<CompareBase>>,
            params |-> <<Str(request.wool_types[k]), Str(request.wool_types[k])>>]
      [] endpoint = "compare_chart_blend" ->
           ApplyDateFilter([query |-> <<CompareBase>>,
                            params |-> <<Str(request.entries[1].types[k]),
                                         Str(request.entries[1].types[k])>>],
                           request.date_filter)

\* The predicates compiled into the executed queries (the requests of
\* SpecFilter carry one blend entry).
CompiledFilters ==
    IF endpoint = "compare_chart_blend" THEN request.entries[1].filters
    ELSE request.column_filters

AfterFilters ==
    IF endpoint \in {"search", "bales_chart", "price_chart"} THEN EndpointTail ELSE OrderTail

\* C17: on search, bales_chart, price_chart, compare_chart and the per-entry
\* filters of compare_chart_blend, a list of predicates appends the same
\* fragments and the same bound parameters: those the nine-operator
\* compilation of search appends.
C17_CallSitesCompileIdentically ==
    Handled =>
      \A k \in 1..Len(executed) :
         /\ executed[k].query =
               BeforeFilters(k).query \o SearchCompiled(CompiledFilters).query
                  \o <<AfterFilters>>
         /\ executed[k].params =
               BeforeFilters(k).params \o SearchCompiled(CompiledFilters).params

\* Without contains and not_contains the five call sites do agree.
SevenOperatorRequest ==
    \A f \in RequestPredicates :
       ~(f.operator.kind = "str" /\ f.operator.val \in {"contains", "not_contains"})

CallSitesAgreeOnSevenOperators ==
    (Handled /\ SevenOperatorRequest) =>
      \A k \in 1..Len(executed) :
         /\ executed[k].query =
               BeforeFilters(k).query \o SearchCompiled(CompiledFilters).query
                  \o <<AfterFilters>>
         /\ executed[k].params =
               BeforeFilters(k).params \o SearchCompiled(CompiledFilters).params

(***************************************************************************)
(* Properties of the per-date aggregation (SpecAggregate).                 *)
(***************************************************************************)
\* The charts of a handled request as [rows, labels, data]: the rows fetched
\* for a series and the points drawn from them.
Charts ==
    IF pc = "done" /\ status = 200 /\ endpoint = "price_chart"
    THEN {[rows |-> fetched, labels |-> response.labels, data |-> response.data]}
    ELSE IF pc = "done" /\ status = 200 /\ endpoint = "compare_chart"
    THEN {[rows |-> fetched[request.wool_types[i]],
           labels |-> response.labels,
           data |-> response.datasets[i].data] : i \in 1..Len(request.wool_types)}
    ELSE {}

\* The value a chart shows at a date (None when the date has no point).
ChartValue(chart, d) ==
    IF \E k \in 1..Len(chart.labels) : chart.labels[k] = DateKey(d)
    THEN chart.data[CHOOSE k \in 1..Len(chart.labels) : chart.labels[k] = DateKey(d)]
    ELSE NoneV

RowDates(rows) == {rows[i].sale_date : i \in 1..Len(rows)}

Group(rows, d) == SelectSeq(rows, LAMBDA r : r.sale_date = d)

\* 0.8 * median <= price <= 1.2 * median, in integers.
InBounds(price, group) ==
    LET m == Median(PriceList(group))
    IN 4 * m.n <= 5 * price * m.d /\ 5 * price * m.d <= 6 * m.n

InBoundItems(group) == SelectSeq(group, LAMBDA it : InBounds(it.price, group))

\* C5: for every date group with at least one item within 0.8 and 1.2 times
\* the group's median price, the value charted at the date is the
\* bales-weighted average price of exactly the items within those bounds (in
\* dollars, rounded to cents).
C5_MedianBoundRejection ==
    \A chart \in Charts :
       \A d \in RowDates(chart.rows) :
          LET kept == InBoundItems(Group(chart.rows, d))
          IN Len(kept) > 0 =>
               ChartValue(chart, d) = RoundDollars(TotalWeightedPrice(kept), TotalBales(kept))

\* Prices 50, 52 and 100 with equal bales on one date chart as 0.51, the
\* average of 50 and 52.
C5_Witness ==
    /\ pc = "done"
    /\ endpoint = "price_chart"
    /\ fetched = <<Row(1, 50, 1), Row(1, 52, 1), Row(1, 100, 1)>>
    /\ response.data = <<Rat(51, 100)>>

\* C6: for every date group of exactly one item, the value charted at the
\* date is the item's own price in dollars (price / 100), in price_chart and
\* in compare_chart.
C6_SingleItemGroup ==
    \A chart \in Charts :
       \A d \in RowDates(chart.rows) :
          LET group == Group(chart.rows, d)
          IN Len(group) = 1 => ChartValue(chart, d) = Rat(group[1].price, 100)

\* One lot of two bales at 1050 cents charts as 10.50 in compare_chart.
C6_Witness ==
    /\ pc = "done"
    /\ endpoint = "compare_chart"
    /\ status = 200
    /\ fetched["28A"] = <<Row(1, 1050, 2)>>
    /\ response.datasets[1].data = <<Rat(21, 2)>>

\* The two middle prices of a group (the same price twice when the number
\* of items is odd): the median is their mean.
LowerMiddle(group) == Sorted(PriceList(group))[(Len(group) + 1) \div 2]

UpperMiddle(group) == Sorted(PriceList(group))[Len(group) \div 2 + 1]

\* 0.8 * median <= price <= 1.2 * median with median = (lower + upper) / 2.
NearMedian(price, group) ==
    /\ 4 * (LowerMiddle(group) + UpperMiddle(group)) <= 10 * price
    /\ 10 * price <= 6 * (LowerMiddle(group) + UpperMiddle(group))

NoItemNearMedian(group) == \A i \in 1..Len(group) : ~NearMedian(group[i].price, group)

\* An even number of items whose upper middle price is more than 1.5 times
\* the lower one.
SplitGroup(group) ==
    /\ Len(group) % 2 = 0
    /\ 2 * UpperMiddle(group) > 3 * LowerMiddle(group)

AllTied(group) == \A i, j \in 1..Len(group) : group[i].price = group[j].price

\* The items a chart averages: the whole of a split group, the items near
\* the median of any other.
Averaged(group) ==
    IF SplitGroup(group) THEN group
    ELSE SelectSeq(group, LAMBDA it : NearMedian(it.price, group))

\* C18, as the code has it: no item of a date group lies within 0.8 and 1.2
\* times the median exactly when the group has an even number of items and
\* its upper middle price exceeds 1.5 times its lower middle price; such a
\* group is charted unfiltered, with all its items, and every other group
\* (every group of an odd number of items among them) keeps the items within
\* the bounds, at least one.
C18_FallbackReachability ==
    \A chart \in Charts :
       \A d \in RowDates(chart.rows) :
          /\ NoItemNearMedian(Group(chart.rows, d)) <=> SplitGroup(Group(chart.rows, d))
          /\ Len(Averaged(Group(chart.rows, d))) >= 1
          /\ ChartValue(chart, d) =
                RoundDollars(TotalWeightedPrice(Averaged(Group(chart.rows, d))),
                             TotalBales(Averaged(Group(chart.rows, d))))
          /\ endpoint = "price_chart" =>
                \E k \in 1..Len(response.labels) :
                   /\ response.labels[k] = DateKey(d)
                   /\ response.data_quality[k] = Len(Averaged(Group(chart.rows, d)))

\* Two lots at 50 and 1050 cents on one date: the median is 550, neither lot
\* is within 440..660, and both are charted: 5.50 dollars.
C18_Witness ==
    /\ pc = "done"
    /\ endpoint = "price_chart"
    /\ fetched = <<Row(1, 50, 1), Row(1, 1050, 1)>>
    /\ response.data_quality = <<2>>
    /\ response.data = <<Rat(11, 2)>>

\* C18 as stated: the fall back to the unfiltered group is taken only by a
\* group of one item or of tied prices; a group of two or more items with
\* differing prices keeps at least one item within the bounds.
C18_FallbackOnlyWhenDegenerate ==
    \A chart \in Charts :
       \A d \in RowDates(chart.rows) :
          NoItemNearMedian(Group(chart.rows, d)) =>
            (Len(Group(chart.rows, d)) = 1 \/ AllTied(Group(chart.rows, d)))

PriceCharted == pc = "done" /\ endpoint = "price_chart" /\ status = 200

\* The items behind a label: the averaged items of the date it formats.
BehindLabel(label) ==
    Averaged(Group(fetched, CHOOSE d \in RowDates(fetched) : DateKey(d) = label))

\* C26: in every successful price_chart response labels, data, data_quality
\* and table_data have the same length and describe the same dates; the
\* labels are strictly ascending dates of fetched rows; data_quality[k] is
\* the number of items of the date that survived outlier rejection, at
\* least 1; statistics is null exactly when there is no label, and its
\* count is the sum of data_quality.
C26_PriceChartAlignment ==
    PriceCharted =>
      /\ Len(response.data) = Len(response.labels)
      /\ Len(response.data_quality) = Len(response.labels)
      /\ Len(response.table_data) = Len(response.labels)
      /\ \A k \in 1..(Len(response.labels) - 1) :
            response.labels[k] < response.labels[k + 1]
      /\ \A k \in 1..Len(response.labels) :
            /\ \E d \in RowDates(fetched) : DateKey(d) = response.labels[k]
            /\ response.data_quality[k] = Len(BehindLabel(response.labels[k]))
            /\ response.data_quality[k] >= 1
            /\ response.table_data[k].date = response.labels[k]
            /\ response.table_data[k].avg_price = response.data[k]
            /\ response.table_data[k].matched_lots = response.data_quality[k]
      /\ response.statistics.present <=> response.labels # <<>>
      /\ response.statistics.present =>
            response.statistics.count = SumSeq(response.data_quality)

\* Two lots on the first date and one on the second: two labels, two and
\* one items behind them, a count of 3.
C26_Witness ==
    /\ PriceCharted
    /\ fetched = <<Row(1, 50, 1), Row(1, 52, 2), Row(2, 100, 1)>>
    /\ response.labels = <<DateKey(1), DateKey(2)>>
    /\ response.data_quality = <<2, 1>>
    /\ response.statistics.count = 3

\* No rows: no label and no statistics.
C26_EmptyWitness ==
    /\ PriceCharted
    /\ fetched = <<>>
    /\ response.labels = <<>>
    /\ ~response.statistics.present

(***************************************************************************)
(* Properties of the aggregation on incomplete rows (SpecDirtyRows).       *)
(***************************************************************************)
Aggregated ==
    pc = "done" /\ endpoint \in {"price_chart", "compare_chart", "compare_chart_blend"}

\* The rows the aggregation ran on.
AggregatedRows == IF endpoint = "price_chart" THEN fetched ELSE fetched["28A"]

\* The rows with a date, a price and bales.
Complete(rows) ==
    SelectSeq(rows, LAMBDA r : r.sale_date # 0 /\ r.price # 0 /\ r.bales # 0)

\* The dates whose surviving items have positive total bales, ascending.
DatesWithBales(rows) ==
    SortedSeq({d \in RowDates(Complete(rows)) :
                 TotalBales(Averaged(Group(Complete(rows), d))) > 0})

\* The values drawn for the rows.
AggregatedData ==
    IF endpoint = "price_chart" THEN response.data
    ELSE IF response.datasets = <<>> THEN <<>> ELSE response.datasets[1].data

\* C19: whatever rows are fetched (rows with a NULL or zero price or bales,
\* no rows at all), price_chart, compare_chart and compare_chart_blend
\* answer without error; there is one entry, with a value, for each date
\* whose surviving items have positive total bales and none for any other
\* date, so that an empty row list gives an empty series.
C19_NoDivisionError ==
    Aggregated =>
      /\ status = 200
      /\ response.kind # "error"
      /\ response.labels =
            [k \in 1..Len(DatesWithBales(AggregatedRows)) |->
               DateKey(DatesWithBales(AggregatedRows)[k])]
      /\ Len(AggregatedData) = Len(response.labels)
      /\ \A k \in 1..Len(AggregatedData) : ~IsNone(AggregatedData[k])
      /\ AggregatedRows = <<>> => (response.labels = <<>> /\ AggregatedData = <<>>)

\* On day 1 the bales cancel and on day 2 the lot has no price: no date is
\* drawn, and nothing is divided.
C19_Witness ==
    /\ pc = "done"
    /\ endpoint = "compare_chart_blend"
    /\ fetched["28A"] = <<Row(1, 50, 1), Row(1, 50, 0 - 1), Row(2, 0, 1)>>
    /\ response.labels = <<>>
    /\ response.datasets[1].data = <<>>

\* No rows at all: an empty chart.
C19_EmptyWitness ==
    /\ pc = "done"
    /\ endpoint = "price_chart"
    /\ fetched = <<>>
    /\ status = 200
    /\ response.labels = <<>>

(***************************************************************************)
(* Properties of interpolate_series (SpecInterpolate): `values` is the     *)
(* list the function was called on, `interpolated` the list it returns.    *)
(***************************************************************************)
Known(i) == i \in 1..Len(values) /\ ~IsNone(values[i])

PrevKnown(i) == {j \in 1..(i - 1) : Known(j)}

NextKnown(i) == {j \in (i + 1)..Len(values) : Known(j)}

Nearest(S, i) == CHOOSE j \in S : \A k \in S : Abs(k - i) >= Abs(j - i)

\* value[p] + (value[n] - value[p]) * (i - p) / (n - p)
Linear(i, p, n) ==
    Rat(values[p].n * values[n].d * (n - p)
          + (values[n].n * values[p].d - values[p].n * values[n].d) * (i - p),
        values[p].d * values[n].d * (n - p))

C8_EdgeFlatFill ==
    pc = "returned" =>
      \A i \in 1..Len(values) :
         IsNone(values[i]) =>
           /\ (PrevKnown(i) = {} /\ NextKnown(i) # {}) =>
                 interpolated[i] = values[Nearest(NextKnown(i), i)]
           /\ (NextKnown(i) = {} /\ PrevKnown(i) # {}) =>
                 interpolated[i] = values[Nearest(PrevKnown(i), i)]

\* [None, None, 5, 8] is returned as [5, 5, 5, 8].
C8_Witness ==
    /\ pc = "returned"
    /\ values = <<NoneV, NoneV, RInt(5), RInt(8)>>
    /\ interpolated = <<RInt(5), RInt(5), RInt(5), RInt(8)>>

\* The returned list is as long as the input, keeps every value of the input
\* and has a None only when the input has nothing else.
FrameAndCompleteness ==
    pc = "returned" =>
      /\ Len(interpolated) = Len(values)
      /\ \A i \in 1..Len(values) : Known(i) => interpolated[i] = values[i]
      /\ (\E i \in 1..Len(values) : Known(i)) =>
            \A i \in 1..Len(interpolated) : ~IsNone(interpolated[i])
      /\ (\A i \in 1..Len(values) : ~Known(i)) => interpolated = values

\* While the function runs, the list it was called on does not change.
InputUntouched == pc = "interpolating" => values' = values

\* C21: interpolate_series returns a list of the length of its input in which
\* every value of the input is kept; it does not modify the list it was
\* called on; the result has no None unless the input was all None, and
\* then it is the input unchanged.
C21_InterpolationFrame == []FrameAndCompleteness /\ [][InputUntouched]_vars

\* Gaps before, between and after two values are all filled.
C21_Witness ==
    /\ pc = "returned"
    /\ values = <<NoneV, RInt(5), NoneV, RInt(10)>>
    /\ interpolated = <<RInt(5), RInt(5), Rat(15, 2), RInt(10)>>

\* [None, None] stays [None, None].
C21_AllNullWitness ==
    /\ pc = "returned"
    /\ values = <<NoneV, NoneV>>
    /\ interpolated = <<NoneV, NoneV>>

(***************************************************************************)
(* Properties of the comparison endpoints (SpecCompare).                   *)
(***************************************************************************)
Compared == pc = "done" /\ endpoint \in {"compare_chart", "compare_chart_blend"}

\* The number of entities the handled comparison request names.
EntityCount ==
    IF endpoint = "compare_chart" THEN Len(request.wool_types) ELSE Len(request.entries)

\* C4: a comparison of more than five entities, or of none, is answered with
\* status 400 and an error body; no query was executed and no rows fetched.
C4_ComparisonCap ==
    (Compared /\ (EntityCount > 5 \/ EntityCount = 0)) =>
      /\ status = 400
      /\ response.kind = "error"
      /\ executed = <<>>
      /\ fetched = <<>>

\* Six wool types were sent to compare_chart and refused.
C4_Witness ==
    /\ pc = "done"
    /\ endpoint = "compare_chart"
    /\ Len(request.wool_types) = 6
    /\ status = 400
    /\ executed = <<>>

\* C9: a comparison request that is accepted (one to five entities, answered
\* with status 200) gets exactly one dataset per entity it names, whether or
\* not entities share a label, have types or have rows.
C9_OneDatasetPerEntity ==
    (Compared /\ status = 200) => Len(response.datasets) = EntityCount

\* The entry a dataset of compare_chart_blend is drawn from: the last entry
\* with types that carries the dataset's label.
SourceEntry(label) ==
    request.entries[CHOOSE j \in 1..Len(request.entries) :
                      /\ request.entries[j].label = label
                      /\ request.entries[j].types # <<>>
                      /\ \A k \in (j + 1)..Len(request.entries) :
                            ~(request.entries[k].label = label
                              /\ request.entries[k].types # <<>>)]

\* The aggregated series behind dataset i of a comparison response.
ReturnedSeries(i, tieUp) ==
    IF endpoint = "compare_chart"
    THEN CompareSeries(fetched[request.wool_types[i]])
    ELSE BlendSeries(SourceEntry(response.datasets[i].label).types, fetched, tieUp)

ReturnedDates ==
    UNION {DOMAIN ReturnedSeries(i, TRUE) : i \in 1..Len(response.datasets)}

\* The data hold, at every label, the series' own value or None.
OwnValueOrNone(data, labels, series) ==
    /\ Len(data) = Len(labels)
    /\ \A k \in 1..Len(labels) :
          data[k] = IF labels[k] \in DOMAIN series THEN series[labels[k]] ELSE NoneV

\* C10: in every comparison response the labels are the dates of the returned
\* series, each once and in ascending order; every dataset is as long as the
\* labels and holds at position k the series' own aggregated value for
\* labels[k], or None where the series has no value for that date.
C10_SharedDateAxis ==
    (Compared /\ status = 200) =>
      /\ \A k \in 1..(Len(response.labels) - 1) : response.labels[k] < response.labels[k + 1]
      /\ Range(response.labels) = ReturnedDates
      /\ \E tieUp \in BOOLEAN :
            \A i \in 1..Len(response.datasets) :
               OwnValueOrNone(response.datasets[i].data, response.labels,
                              ReturnedSeries(i, tieUp))

\* Two wool types sold on different days: each dataset has a gap on the
\* other's day.
C10_Witness ==
    /\ pc = "done"
    /\ endpoint = "compare_chart"
    /\ status = 200
    /\ request.wool_types = <<"28A", "30B">>
    /\ fetched["28A"] = <<Row(1, 50, 1)>>
    /\ fetched["30B"] = <<Row(2, 100, 1)>>
    /\ response.labels = <<DateKey(1), DateKey(2)>>
    /\ response.datasets[1].data = <<Rat(50, 100), NoneV>>
    /\ response.datasets[2].data = <<NoneV, Rat(100, 100)>>

(***************************************************************************)
(* Properties of the blend of one entry (SpecBlend): every wool type has   *)
(* one lot per day, so its value on a day it was sold is the lot's price   *)
(* in dollars.                                                             *)
(***************************************************************************)
Blended == pc = "done" /\ endpoint = "compare_chart_blend" /\ status = 200

BlendTypes == request.entries[1].types

SoldOn(t) == RowDates(fetched[t])

\* The sorted union of the sub-types' dates.
UnionDates == SortedSeq(UNION {SoldOn(BlendTypes[i]) : i \in 1..Len(BlendTypes)})

PriceOn(t, d) == Rat((CHOOSE r \in Range(fetched[t]) : r.sale_date = d).price, 100)

\* The positions of the union before and after k where t was sold.
SoldBefore(t, k) == {j \in 1..(k - 1) : UnionDates[j] \in SoldOn(t)}

SoldAfter(t, k) == {j \in (k + 1)..Len(UnionDates) : UnionDates[j] \in SoldOn(t)}

Latest(S) == CHOOSE j \in S : \A i \in S : i <= j

Earliest(S) == CHOOSE j \in S : \A i \in S : j <= i

\* v(p) + (v(n) - v(p)) * (k - p) / (n - p)
Between(t, k, p, n) ==
    RAdd(PriceOn(t, UnionDates[p]),
         RScale(RSub(PriceOn(t, UnionDates[n]), PriceOn(t, UnionDates[p])), k - p, n - p))

\* The interpolated value of sub-type t at position k of the union: its own
\* value, the line between its neighbours, its nearest value at an edge, and
\* None when t has no data at all.
InterpolatedValue(t, k) ==
    IF SoldOn(t) = {} THEN NoneV
    ELSE IF UnionDates[k] \in SoldOn(t) THEN PriceOn(t, UnionDates[k])
    ELSE IF SoldBefore(t, k) # {} /\ SoldAfter(t, k) # {}
    THEN Between(t, k, Latest(SoldBefore(t, k)), Earliest(SoldAfter(t, k)))
    ELSE IF SoldBefore(t, k) # {} THEN PriceOn(t, UnionDates[Latest(SoldBefore(t, k))])
    ELSE PriceOn(t, UnionDates[Earliest(SoldAfter(t, k))])

NonNullValues(k) ==
    SelectSeq([i \in 1..Len(BlendTypes) |-> InterpolatedValue(BlendTypes[i], k)],
              LAMBDA v : ~IsNone(v))

MeanOfNonNull(k) == RScale(RSum(NonNullValues(k)), 1, Len(NonNullValues(k)))

\* C20: the blended series of an entry has a value at each date of the sorted
\* union of its sub-types' dates: the mean of the sub-types' interpolated
\* values that are not None, rounded to 2 decimals (a half cent either way).
\* No date of the union is left out, and a sub-type without data counts in
\* no mean.
C20_BlendAveraging ==
    Blended =>
      /\ Len(response.datasets) = 1
      /\ response.labels = [k \in 1..Len(UnionDates) |-> DateKey(UnionDates[k])]
      /\ Len(response.datasets[1].data) = Len(UnionDates)
      /\ \A k \in 1..Len(UnionDates) :
            /\ Len(NonNullValues(k)) > 0
            /\ \E tieUp \in BOOLEAN :
                  response.datasets[1].data[k] = RoundAvg(MeanOfNonNull(k), tieUp)

\* 28A sold at 0.50 on day 1 and at 1.01 on day 3, 30B at 0.50 on day 2: the
\* blend is 0.50 on day 1 and (0.755 + 0.50) / 2 = 0.6275, drawn as 0.63, on
\* day 2.
C20_Witness ==
    /\ Blended
    /\ BlendTypes = <<"28A", "30B">>
    /\ fetched["28A"] = <<Row(1, 50, 1), Row(3, 101, 1)>>
    /\ fetched["30B"] = <<Row(2, 50, 1)>>
    /\ Len(response.datasets[1].data) = 3
    /\ response.datasets[1].data[1] = Rat(1, 2)
    /\ response.datasets[1].data[2] = Rat(63, 100)

\* A sub-type without data: the blend is the other sub-type's series.
C20_NoDataWitness ==
    /\ Blended
    /\ BlendTypes = <<"28A", "30B">>
    /\ fetched["28A"] = <<Row(1, 50, 1), Row(3, 101, 1)>>
    /\ fetched["30B"] = <<>>
    /\ response.datasets[1].data = <<Rat(1, 2), Rat(101, 100)>>

(***************************************************************************)
(* Properties of the weekly regression (SpecRegression): `fetched` holds   *)
(* the weekly cohorts, in week order.                                      *)
(***************************************************************************)
Regressed == pc = "done" /\ endpoint = "regression"

ReportedWeeks ==
    IF response.kind = "regression"
    THEN {response.weekly_results[i].week : i \in 1..Len(response.weekly_results)}
    ELSE {}

\* C11: a week is reported only if its cohort has at least 20 rows, at least
\* 20 rows without a missing feature or price and an R-squared of at least
\* 0.4; and every week with at least 20 such rows and an R-squared of at
\* least 0.4 whose fit succeeds is reported.
C11_RegressionMinimums ==
    Regressed =>
      \A w \in 1..Len(fetched) :
         /\ w \in ReportedWeeks =>
               (fetched[w].rows >= 20 /\ fetched[w].valid >= 20 /\ fetched[w].r2 >= 40000)
         /\ (fetched[w].valid >= 20 /\ fetched[w].r2 >= 40000 /\ fetched[w].fit = "ok") =>
               w \in ReportedWeeks

\* A week that loses its twentieth row to a missing value, a week of exactly
\* twenty valid rows at R-squared 0.4 and a week at 0.39: only the second is
\* reported.
C11_Witness ==
    /\ Regressed
    /\ fetched = <<Cohort(20, 19, "ok", 40000, 1), Cohort(20, 20, "ok", 40000, 1),
                   Cohort(20, 20, "ok", 39000, 1)>>
    /\ ReportedWeeks = {2}

\* The smoothing window the handled request asks for.
RequestedWindow == IF request.smooth_window.present THEN request.smooth_window.val ELSE 5

\* The mean of a coefficient over the reported results i-w+1 .. i.
TrailingMean(coef, w, i) ==
    LET from == IF i - w + 1 < 1 THEN 1 ELSE i - w + 1
        n == i - from + 1
    IN RScale(RSum([k \in 1..n |-> response.weekly_results[from + k - 1].coefficients[coef]]),
              1, n)

\* Result i carries the smoothed value of the coefficient.
CarriesSmoothed(coef, w, i) ==
    /\ SmoothedKey(coef) \in DOMAIN response.weekly_results[i].coefficients
    /\ \E tieUp \in BOOLEAN :
          response.weekly_results[i].coefficients[SmoothedKey(coef)]
            = RoundTo(TrailingMean(coef, w, i), 100, tieUp)

\* With a window above 1 every reported week carries the trailing mean of
\* each of the given coefficients; otherwise the coefficients are the five
\* of the fit and nothing else.
SmoothedOver(coefs) ==
    (Regressed /\ response.kind = "regression") =>
      \A i \in 1..Len(response.weekly_results) :
         IF RequestedWindow > 1
         THEN \A coef \in coefs : CarriesSmoothed(coef, RequestedWindow, i)
         ELSE DOMAIN response.weekly_results[i].coefficients = CoefNames

\* The smoothing as the handler does it: the four feature coefficients.
FeatureCoefficientsSmoothed == SmoothedOver({"micron", "colour", "length_index", "vegetable_matter"})

\* C12: with a smoothing window above 1 every reported week carries, for each
\* of intercept, micron, colour, length_index and vegetable_matter, the mean
\* of that coefficient over the reported weeks max(0, i-w+1) .. i (rounded to
\* 2 decimals); with a window of 1 or less no smoothed value is added.
C12_CoefficientSmoothing ==
    SmoothedOver({"intercept", "micron", "colour", "length_index", "vegetable_matter"})

\* No week of the fetched rows has 20 valid rows, an R-squared of 0.4 and a
\* fit that returns.
NoWeekQualifies ==
    \A w \in 1..Len(fetched) :
       fetched[w].valid < 20 \/ fetched[w].r2 < 40000 \/ fetched[w].fit = "raises"

InsufficientData == ErrorResponse("Insufficient data for regression analysis")

\* C22, as the code has it: when rows were fetched and no week qualifies the
\* response is the error 'Insufficient data for regression analysis'; when no
\* row was fetched it is the error 'No data found'; a response with
\* weekly_results and a summary has at least one weekly result.
C22_InsufficientData ==
    Regressed =>
      /\ (fetched # <<>> /\ NoWeekQualifies) => response = InsufficientData
      /\ fetched = <<>> => response = ErrorResponse("No data found")
      /\ response.kind = "regression" =>
            (Len(response.weekly_results) >= 1 /\ response.weeks_analyzed >= 1)

\* Three weeks, one short of valid rows, one below 0.4 and one whose fit
\* raises: insufficient data.
C22_Witness ==
    /\ Regressed
    /\ fetched = <<Cohort(20, 19, "ok", 40000, 1), Cohort(20, 20, "ok", 39000, 1),
                   Cohort(20, 20, "raises", 40000, 1)>>
    /\ response = InsufficientData

\* C22 as stated: whenever no weekly cohort yields a retained result the
\* response is the error 'Insufficient data for regression analysis'.
C22_AlwaysInsufficientData ==
    (Regressed /\ NoWeekQualifies) => response = InsufficientData

(***************************************************************************)
(* Properties of the scenario endpoint (SpecScenario): `fetched` holds the *)
(* population the model was fitted on.                                     *)
(***************************************************************************)
ScenarioAnswered == pc = "done" /\ endpoint = "scenario" /\ response.kind = "scenario"

\* Every feature of the scenario is omitted or has the value the baseline
\* has (given or by default).
ScenarioIsBaseline ==
    \A f \in Features :
       \/ ~request.scenario[f].present
       \/ request.scenario[f].val =
            (IF request.baseline[f].present THEN request.baseline[f].val
             ELSE BaselineDefault(f))

\* C13: when the scenario vector equals the baseline vector, omitted scenario
\* fields taking the baseline's values, the price change is exactly 0 (in
\* cents and in dollars) and so is every entry of the impact breakdown.
C13_ScenarioDeterminism ==
    (ScenarioAnswered /\ ScenarioIsBaseline) =>
      /\ response.price_change_cents = RInt(0)
      /\ response.price_change_dollars = RInt(0)
      /\ \A f \in Features : response.impact_breakdown[f] = RInt(0)

\* A baseline of micron 30 and a scenario that omits every field: no change.
C13_Witness ==
    /\ ScenarioAnswered
    /\ request.baseline["micron"] = Given(RInt(30))
    /\ \A f \in Features : ~request.scenario[f].present
    /\ response.scenario["micron"] = RInt(30)
    /\ response.price_change_cents = RInt(0)

\* C14: a successful scenario response reports a model fitted on at least 50
\* rows, and when fewer than 50 rows qualify for the fit the response is the
\* insufficient-data error.
C14_ScenarioMinimumPopulation ==
    (pc = "done" /\ endpoint = "scenario") =>
      /\ response.kind = "scenario" => response.model_stats.n_obs >= 50
      /\ fetched.valid < 50 => response.kind = "error"

(***************************************************************************)
(* Properties of the benchmark endpoint (SpecBenchmark): `fetched` holds   *)
(* the reference population.                                               *)
(***************************************************************************)
ColourRanked ==
    /\ pc = "done" /\ endpoint = "benchmark" /\ response.kind = "benchmark"
    /\ request.specs.colour.present

\* The number of values of a between lo and hi.
CountIf(a, lo, hi) == Cardinality({i \in 1..Len(a) : lo <= a[i] /\ a[i] <= hi})

\* The colour percentile is 100 minus the rank percentile, to one decimal:
\* the code's side of C15, which holds.
ColourPercentileIsInverted ==
    ColourRanked =>
      \E tieUp \in BOOLEAN :
         response.lot_ranking.colour_percentile.val =
           RoundTo(RSub(RInt(100),
                        Rat(50 * (CountIf(fetched.colours, 1, request.specs.colour.val - 1)
                                  + CountIf(fetched.colours, 1, request.specs.colour.val)
                                  + (IF CountIf(fetched.colours, request.specs.colour.val,
                                                request.specs.colour.val) > 0
                                     THEN 1 ELSE 0)),
                            Len(fetched.colours))),
                   10, tieUp)

\* C15: with colours [1,2,3,4,5] in the reference population, a lot of colour
\* 5 has colour percentile 0 and a lot of colour 1 has colour percentile 100.
C15_PercentileInversion ==
    (ColourRanked /\ fetched.colours = <<1, 2, 3, 4, 5>>) =>
      /\ request.specs.colour.val = 5 => response.lot_ranking.colour_percentile.val = RInt(0)
      /\ request.specs.colour.val = 1 => response.lot_ranking.colour_percentile.val = RInt(100)

\* A lot with a one-character length code was benchmarked.
LengthCodeBenchmarked ==
    /\ pc = "done" /\ endpoint = "benchmark"
    /\ fetched.rows >= 50
    /\ request.specs.length.present /\ request.specs.length.kind = "str"

\* What derive_length_index makes of the length code.
DerivedIndex == derive_length_index([kind |-> "str", chars |-> request.specs.length.chars])

\* The length percentile of an index: 100 minus its rank percentile.
LengthPercentileOf(index) ==
    {RoundTo(RSub(RInt(100),
                  Rat(50 * (CountIf(fetched.lengths, 1, index - 1)
                            + CountIf(fetched.lengths, 1, index)
                            + (IF CountIf(fetched.lengths, index, index) > 0 THEN 1 ELSE 0)),
                      Len(fetched.lengths))),
             10, tieUp) : tieUp \in BOOLEAN}

\* C23: a one-character length code is ranked by the index derive_length_index
\* gives it; a code for which derive_length_index gives None gets no length
\* percentile.
C23_LengthConversionAgrees ==
    LengthCodeBenchmarked =>
      /\ status = 200
      /\ IF DerivedIndex.kind = "int"
         THEN /\ response.lot_ranking.length_percentile.present
              /\ response.lot_ranking.length_percentile.val \in LengthPercentileOf(DerivedIndex.val)
         ELSE ~response.lot_ranking.length_percentile.present

\* On ASCII letters the two conversions agree.
LengthConversionAgreesOnLetters ==
    (LengthCodeBenchmarked /\ request.specs.length.chars[1] \in (65..90) \cup (97..122)) =>
      /\ status = 200
      /\ DerivedIndex.kind = "int" /\ DerivedIndex.val \in 1..26
      /\ response.lot_ranking.length_percentile.val \in LengthPercentileOf(DerivedIndex.val)

(***************************************************************************)
(* Properties of derive_length_index (SpecLength): `request` holds the     *)
(* argument and `response` the result.                                     *)
(***************************************************************************)
LengthDerived == pc = "done" /\ endpoint = "derive_length_index"

AsciiLetters == (65..90) \cup (97..122)

\* The argument is a string that is not empty and ends in an ASCII letter.
EndsInAsciiLetter ==
    /\ request.kind = "str"
    /\ Len(request.chars) > 0
    /\ request.chars[Len(request.chars)] \in AsciiLetters

\* The position in the alphabet of an ASCII letter, whatever its case.
AlphabetPosition(c) == IF c >= 97 THEN c - 96 ELSE c - 64

\* On arguments that end in an ASCII letter, and on arguments that are not
\* strings or are empty, C16 holds.
AsciiLengthIndex ==
    LengthDerived =>
      /\ EndsInAsciiLetter =>
           response = [kind |-> "int",
                       val |-> AlphabetPosition(request.chars[Len(request.chars)])]
      /\ (request.kind # "str" \/ Len(request.chars) = 0) => response.kind = "none"

\* C16: derive_length_index returns None when its argument is empty, is not a
\* string or ends in a character that is not an ASCII letter, and the
\* position of the letter otherwise; the result is None or an int in 1..26.
C16_LengthIndex ==
    LengthDerived =>
      /\ IF EndsInAsciiLetter
         THEN response = [kind |-> "int",
                          val |-> AlphabetPosition(request.chars[Len(request.chars)])]
         ELSE response.kind = "none"
      /\ response.kind = "none" \/ (response.kind = "int" /\ response.val \in 1..26)

(***************************************************************************)
(* Properties of the distribution endpoint (SpecDistribution): `fetched`   *)
(* holds the rows.                                                         *)
(***************************************************************************)
Distributed == pc = "done" /\ endpoint = "distribution" /\ response.kind = "distribution"

\* The rows with a value and bales.
ValidPoints == SelectSeq(fetched, LAMBDA r : ~r.missing)

\* The bins a value falls in.
BinsOf(v) ==
    {i \in 1..Len(response.histogram) :
       response.histogram[i].bin_start <= v /\ v < response.histogram[i].bin_end}

HistogramKg == SumSeq([i \in 1..Len(response.histogram) |-> response.histogram[i].kg])

PointBales == SumSeq([i \in 1..Len(ValidPoints) |-> ValidPoints[i].bales])

\* C24: every data point falls in exactly one bin of the histogram, and the
\* kg of all bins sum to 120 times the bales of all data points.
C24_HistogramCoverage ==
    Distributed =>
      /\ \A i \in 1..Len(ValidPoints) : Cardinality(BinsOf(ValidPoints[i].value)) = 1
      /\ HistogramKg = 120 * PointBales

\* The value at which the last bin ends.
LastEdge ==
    IF response.histogram = <<>> THEN response.statistics.min
    ELSE response.histogram[Len(response.histogram)].bin_end

BelowLastEdge == SelectSeq(ValidPoints, LAMBDA r : r.value < LastEdge)

\* What does hold: the bins are half-open and the last one ends at the first
\* edge that is not below the maximum; no point is in two bins, the points
\* below the last edge are in one, and the kg are theirs.
HistogramCoversBelowLastEdge ==
    Distributed =>
      /\ LastEdge >= response.statistics.max
      /\ LastEdge < response.statistics.max + request.bin_size
      /\ \A i \in 1..Len(ValidPoints) :
            Cardinality(BinsOf(ValidPoints[i].value)) =
              (IF ValidPoints[i].value < LastEdge THEN 1 ELSE 0)
      /\ HistogramKg = 120 * SumSeq([i \in 1..Len(BelowLastEdge) |-> BelowLastEdge[i].bales])

(***************************************************************************)
(* Properties of the queries handed to cursor.execute (SpecQueries).       *)
(***************************************************************************)
QueryEndpoints ==
    FilterEndpoints \cup {"distribution", "timeseries", "regression", "benchmark"}

Queried == pc = "done" /\ endpoint \in QueryEndpoints

\* The number of %s in a piece of query text.
PlaceholderCount(piece) ==
    Cardinality({i \in 1..(Len(piece) - 1) : SubSeq(piece, i, i + 1) = "%s"})

\* The number of %s before piece k of a query.
PlaceholdersBefore(q, k) == SumSeq([j \in 1..(k - 1) |-> PlaceholderCount(q.query[j])])

\* The parameters bound at the placeholders of piece k.
BoundAt(q, k) ==
    SubSeq(q.params, PlaceholdersBefore(q, k) + 1, PlaceholdersBefore(q, k + 1))

\* The type terms the handled request may bind.
RequestTerms ==
    CASE endpoint = "compare_chart" -> {Str(t) : t \in Range(request.wool_types)}
      [] endpoint = "compare_chart_blend" ->
           {Str(t) : t \in UNION {Range(request.entries[i].types) :
                                    i \in 1..Len(request.entries)}}
      [] OTHER -> IF request.wool_type_search = Null THEN {}
                  ELSE {Str(Strip(request.wool_type_search.val))}

\* The predicates of the handled request, its date filter included.
AllPredicates ==
    RequestPredicates
      \cup (IF endpoint = "compare_chart_blend" /\ request.date_filter.present
            THEN {[column |-> Str("sale_date"), operator |-> request.date_filter.operator,
                   value |-> request.date_filter.value,
                   value2 |-> request.date_filter.value2]}
            ELSE {})

\* What a predicate with the column and operator of the piece would bind.
PredicateValues(piece) ==
    {IF f.operator.val = "between" THEN <<f.value, f.value2>>
     ELSE IF f.operator.val \in {"contains", "not_contains"}
     THEN <<Str("%" \o f.value.val \o "%")>>
     ELSE <<f.value>> :
       f \in {g \in AllPredicates :
                /\ g.column.kind = "str" /\ g.operator.kind = "str"
                /\ g.operator.val \in SearchOperators
                /\ piece = " AND " \o g.column.val \o OperatorSql(g.operator.val)}}

\* The date and range fields of the handled request.
DateFields ==
    IF endpoint = "benchmark"
    THEN [start_date |-> request.start_date, end_date |-> request.end_date]
    ELSE [start_date |-> request.filters.start_date, end_date |-> request.filters.end_date]

\* What the date, micron and range filters would bind at the piece.
FieldValues(piece) ==
    (IF piece = " AND sale_date >= %s"
     THEN {<<IF endpoint \in {"timeseries", "regression"} /\ ~Truthy(DateFields.start_date)
             THEN Str("2012-07-01") ELSE DateFields.start_date>>}
     ELSE {})
    \cup (IF piece = " AND sale_date <= %s" THEN {<<DateFields.end_date>>} ELSE {})
    \cup (IF piece = " AND micron BETWEEN %s AND %s" /\ endpoint \in {"timeseries", "regression"}
          THEN {<<request.filters.min_micron, request.filters.max_micron>>} ELSE {})
    \cup (IF endpoint = "distribution"
          THEN {<<r.min, r.max>> :
                  r \in {s \in Range(request.filters.ranges) :
                           piece = " AND " \o s.key \o " BETWEEN %s AND %s"}}
          ELSE {})

\* The parameters the request gives for the placeholders of a piece.
ValuesFor(piece) ==
    IF endpoint \in FilterEndpoints
    THEN IF piece \in {TypeSearchSql, CompareBase}
         THEN {<<t, t>> : t \in RequestTerms}
         ELSE PredicateValues(piece)
    ELSE FieldValues(piece)

\* C25: in every query an endpoint hands to cursor.execute, the number of
\* %s placeholders of the text equals the number of bound parameters, and
\* the parameters stand in the order of their placeholders: the ones at the
\* placeholders of a piece of text are the values the request gives for
\* that piece.
C25_PlaceholderBalance ==
    Queried =>
      \A n \in 1..Len(executed) :
         /\ PlaceholdersBefore(executed[n], Len(executed[n].query) + 1)
               = Len(executed[n].params)
         /\ \A k \in 1..Len(executed[n].query) :
               PlaceholderCount(executed[n].query[k]) > 0 =>
                  BoundAt(executed[n], k) \in ValuesFor(executed[n].query[k])

\* A search with a type term, a BETWEEN and a LIKE: five placeholders.
C25_Witness ==
    /\ Queried /\ endpoint = "search"
    /\ Len(executed) = 1 /\ Len(executed[1].params) = 5
    /\ " AND price BETWEEN %s AND %s" \in Range(executed[1].query)
    /\ " AND price LIKE %s" \in Range(executed[1].query)

\* A custom benchmark period that binds both of its dates.
C25_CustomPeriodWitness ==
    /\ Queried /\ endpoint = "benchmark"
    /\ Len(executed) = 1 /\ Len(executed[1].params) = 2

\* A distribution with both dates and two ranges: six placeholders.
C25_RangesWitness ==
    /\ Queried /\ endpoint = "distribution"
    /\ Len(executed) = 1 /\ Len(executed[1].params) = 6

(***************************************************************************)
(* Properties of categorize_wool_data (SpecCategorize).                    *)
(***************************************************************************)
Categorized == pc = "done" /\ endpoint = "categorize_wool_data"

CategoryKeys == {WOOL_HS_CODES[k].category : k \in 1..Len(WOOL_HS_CODES)}

EndsWith(text, suffix) ==
    Len(text) >= Len(suffix) /\ SubSeq(text, Len(text) - Len(suffix) + 1, Len(text)) = suffix

\* The micron range documented for a category: its class is the end of
\* its key.
DocumentedRange(category) ==
    IF EndsWith(category, "_very_coarse") THEN "> 35.4"
    ELSE IF EndsWith(category, "_coarse") THEN "31.4-35.4"
    ELSE IF EndsWith(category, "_medium") THEN "24.5-31.4"
    ELSE IF EndsWith(category, "_fine") THEN "< 24.5"
    ELSE "N/A"

\* C30: every row whose category is a key of WOOL_HS_CODES carries the
\* micron range documented for the category: '< 24.5' for fine,
\* '24.5-31.4' for medium, '31.4-35.4' for coarse, '> 35.4' for very
\* coarse, 'N/A' for a category without a micron class.
C30_MicronRangeLabelling ==
    Categorized =>
      \A i \in 1..Len(response.rows) :
         response.rows[i].wool_category \in CategoryKeys =>
            response.rows[i].micron_range = DocumentedRange(response.rows[i].wool_category)

\* What holds: the range is the documented one for every category but the
\* very coarse ones, which carry the range of the coarse ones.
MicronRangeButVeryCoarse ==
    Categorized =>
      \A i \in 1..Len(response.rows) :
         response.rows[i].micron_range =
            IF EndsWith(response.rows[i].wool_category, "_very_coarse") THEN "31.4-35.4"
            ELSE DocumentedRange(response.rows[i].wool_category)

(***************************************************************************)
(* Properties of get_db (SpecConnect).                                     *)
(***************************************************************************)
Running == {k \in 1..Len(tunnels) : tunnels[k] = "running"}

\* The tunnels the attempts in progress have started.
BeingConnected == {threads[t].tunnel : t \in {u \in Threads : threads[u].at # "out"}}

\* C27: at every point each running tunnel is held in _worker_tunnel, is
\* the tunnel of an attempt still in progress, or has been stopped: when
\* an attempt has failed and its except clause is done, no tunnel it
\* started is left running.
C27_NoLeakedTunnel ==
    \A k \in Running : k = worker_tunnel \/ k \in BeingConnected

\* The threads inside get_db_connection, with a tunnel started.
InGetDbConnection == {t \in Threads : threads[t].at = "tunnel_started"}

\* C28: at most one call of get_db_connection is in progress at any time.
C28_OneTunnelCreation == Cardinality(InGetDbConnection) <= 1

\* What holds: the tunnel in _worker_tunnel is one the worker started, and
\* the connection kept goes through it.
WorkerTunnelStarted ==
    /\ worker_tunnel \in 0..Len(tunnels)
    /\ worker_conn.tunnel \in {0, worker_tunnel}

(***************************************************************************)
(* Properties of the updater (SpecUpdater).                                *)
(***************************************************************************)
\* C29: whatever the updater does and wherever it crashes, the target name
\* exists and holds a complete version, the old one or the new one, and a
\* reader never finds it missing or partially written.
C29_AtomicReplacement == files["target"] >= 1 /\ observed >= 1

\* What holds: the target is never partially written, since the download
\* goes to another name and is renamed.
TargetNeverPartial == files["target"] >= 0 /\ observed >= 0

====
